---- MODULE Spec2Model ----
(***************************************************************************)
(* A model of takecrate's install / uninstall engine: the planner, the     *)
(* executor with its checksum-guarded copy, the uninstaller that consumes  *)
(* the disk manifest, and the OS adapters they call, over a small file     *)
(* system, registry and shell profile.                                     *)
(*                                                                         *)
(* Paths are sequences of components (absolute, the root left implicit).   *)
(* File contents are byte sequences; CRC32C is computed bit by bit.        *)
(***************************************************************************)
EXTENDS Integers, Sequences, FiniteSets, TLC

\* ------------------------------------------------------------------ bounds

\* Number of top-level operations (install / uninstall calls) in a behaviour.
MaxOps == 3
\* Number of changes another actor makes to the destination files.
MaxEnvOps == 1
\* Number of system calls that fail with an I/O error in a behaviour.
MaxFaults == 1

\* --------------------------------------------------------------- utilities

RECURSIVE SeqToSet(_)
SeqToSet(s) == IF s = <<>> THEN {} ELSE {Head(s)} \cup SeqToSet(Tail(s))

\* Option values: None, or Some(v).
None    == <<>>
Some(v) == <<v>>
IsSome(o) == o # <<>>
Unwrap(o) == o[1]

Join(base, rel) == base \o rel

Parent(p) == SubSeq(p, 1, Len(p) - 1)

\* Every proper ancestor directory of p and p itself (the root excluded).
Ancestors(p) == { SubSeq(p, 1, n) : n \in 1..Len(p) }

\* ------------------------------------------------------------ manifest/id.rs

UpperChars == <<"A", "B", "C", "D", "I", "O">>
LowerChars == <<"a", "b", "c", "d", "i", "o">>

to_ascii_lowercase_char(c) ==
    IF \E i \in 1..Len(UpperChars) : UpperChars[i] = c
    THEN LowerChars[CHOOSE i \in 1..Len(UpperChars) : UpperChars[i] = c]
    ELSE c

\* normalize_namespaced_id without the hyphen replacement.
normalize_lowercase_only(value) ==
    [i \in 1..Len(value) |-> to_ascii_lowercase_char(value[i])]

\* value.replace("-", "_").to_ascii_lowercase()
normalize_namespaced_id(value) ==
    [i \in 1..Len(value) |->
        to_ascii_lowercase_char(IF value[i] = "-" THEN "_" ELSE value[i])]

\* The fixed namespace 0192391a-2817-7e1c-988d-5aef70264a82.
NAMESPACE == "0192391a-2817-7e1c-988d-5aef70264a82"

\* Uuid::new_v5 is a hash of (namespace, name); it is kept symbolic, so two
\* UUIDs are equal exactly when the hashed inputs are.
app_id_to_uuid(value) == <<"v5", NAMESPACE, normalize_namespaced_id(value)>>

\* value.split('.').last()
RECURSIVE LastSegment(_)
LastSegment(value) ==
    IF \E i \in 1..Len(value) : value[i] = "."
    THEN LastSegment(SubSeq(value,
            (CHOOSE i \in 1..Len(value) : value[i] = "."
                /\ \A j \in 1..(i - 1) : value[j] # ".") + 1, Len(value)))
    ELSE value

\* char::is_ascii_alphabetic and char::is_ascii_alphanumeric, over the
\* characters the model writes ids with.
AsciiLetters == SeqToSet(UpperChars) \cup SeqToSet(LowerChars)
AsciiDigits  == {"0", "1", "2", "3", "4", "5", "6", "7", "8", "9"}

\* A character outside ASCII (e with an acute accent): two bytes in UTF-8.
EAcute == "U+00E9"

\* str::len counts UTF-8 bytes, not characters.
len(value) ==
    Len(value) + Cardinality({ i \in 1..Len(value) : value[i] = EAcute })

\* value.split('.')
RECURSIVE split(_)
split(value) ==
    IF \E i \in 1..Len(value) : value[i] = "."
    THEN LET i == CHOOSE i \in 1..Len(value) : value[i] = "."
                    /\ \A j \in 1..(i - 1) : value[j] # "."
         IN  <<SubSeq(value, 1, i - 1)>> \o split(SubSeq(value, i + 1, Len(value)))
    ELSE <<value>>

\* The id length limit of validate_namespaced_id.
MaxIdLength == 100

\* validate_namespaced_id with the first-character check left out.
validate_segment_any_first(segment) ==
    IF len(segment) < 2 THEN "SegmentLength"
    ELSE IF ~ \A i \in 1..Len(segment) :
                segment[i] \in AsciiLetters \cup AsciiDigits \cup {"-", "_"}
    THEN "Character"
    ELSE "Ok"

\* The first check a segment fails, "Ok" when it passes all three.
validate_segment(segment) ==
    IF len(segment) < 2 THEN "SegmentLength"
    ELSE IF ~ \A i \in 1..Len(segment) :
                segment[i] \in AsciiLetters \cup AsciiDigits \cup {"-", "_"}
    THEN "Character"
    ELSE IF segment[1] \notin AsciiLetters THEN "FirstCharacter"
    ELSE "Ok"

\* validate_namespaced_id: "Ok", or the AppIdError of the first failed check.
validate_namespaced_id(value) ==
    IF len(value) > MaxIdLength THEN "Length"
    ELSE LET segments == split(value) IN
         IF Len(segments) < 2 THEN "SegmentCount"
         ELSE IF \E k \in 1..Len(segments) : validate_segment(segments[k]) # "Ok"
         THEN validate_segment(segments[
                CHOOSE k \in 1..Len(segments) :
                    /\ validate_segment(segments[k]) # "Ok"
                    /\ \A j \in 1..(k - 1) : validate_segment(segments[j]) = "Ok"])
         ELSE "Ok"

\* AppId::new once validate_namespaced_id has accepted the id.
AppIdNew(namespaced_id) ==
    [ plain_id      |-> LastSegment(namespaced_id),
      namespaced_id |-> namespaced_id,
      uuid          |-> app_id_to_uuid(namespaced_id) ]

\* The application being installed, and another application's id.
AppA == AppIdNew(<<"i", "o", ".", "a", "b">>)
AppB == AppIdNew(<<"i", "o", ".", "c", "d">>)
AppIds == {AppA, AppB}

\* --------------------------------------------------------------- os.rs

\* CRC32C (Castagnoli), reflected polynomial 0x82F63B78, bits LSB first.
Crc32cPoly ==
    <<0, 0, 0, 1, 1, 1, 1, 0, 1, 1, 0, 1, 1, 1, 0, 0,
      0, 1, 1, 0, 1, 1, 1, 1, 0, 1, 0, 0, 0, 0, 0, 1>>

Xor32(a, b) == [i \in 1..32 |-> (a[i] + b[i]) % 2]

ByteBits(b) == [i \in 1..8 |-> (b \div (2 ^ (i - 1))) % 2]

Crc32cBit(crc, bit) ==
    LET shifted == [i \in 1..32 |-> IF i < 32 THEN crc[i + 1] ELSE 0]
    IN  IF (crc[1] + bit) % 2 = 1 THEN Xor32(shifted, Crc32cPoly) ELSE shifted

RECURSIVE Crc32cBits(_, _)
Crc32cBits(crc, bits) ==
    IF bits = <<>> THEN crc
    ELSE Crc32cBits(Crc32cBit(crc, Head(bits)), Tail(bits))

RECURSIVE Crc32cBytes(_, _)
Crc32cBytes(crc, bytes) ==
    IF bytes = <<>> THEN crc
    ELSE Crc32cBytes(Crc32cBits(crc, ByteBits(Head(bytes))), Tail(bytes))

\* crc32c::Crc32cWriter over the whole stream: init all ones, final complement.
crc32c(bytes) ==
    LET ones == [i \in 1..32 |-> 1]
    IN  Xor32(Crc32cBytes(ones, bytes), ones)


\* FileChecksum of a byte stream: the CRC32C of the bytes and their count.
file_checksum_bytes(bytes) == [crc32c |-> crc32c(bytes), len |-> Len(bytes)]

\* ------------------------------------------------------- file contents

ExeBytes       == <<127, 69>>
DataBytes      == <<100>>
\* DataBytes with one byte changed.
TamperedBytes  == <<101>>
\* Another length, the same CRC32C as DataBytes (0xF421572C).
CollidingBytes == <<87, 173, 36, 13>>

PayloadBytes == {ExeBytes, DataBytes, TamperedBytes, CollidingBytes}

Bytes(b)  == [kind |-> "bytes", bytes |-> b]
\* A serialized disk manifest (RON text), kept as the document it encodes.
Ron(doc)  == [kind |-> "ron", doc |-> doc]
\* A shell profile: a sequence of text tokens.
Text(t)   == [kind |-> "text", text |-> t]

\* The checksums of the byte streams of the model, computed once.
ChecksumTable == [b \in PayloadBytes |-> file_checksum_bytes(b)]

\* -------------------------------------------------- environment and paths

Families == {"unix", "windows"}

HOME         == <<"home">>
LOCALAPPDATA == <<"C:", "Local">>
PROGRAMFILES == <<"C:", "Program Files">>
PROGRAMDATA  == <<"C:", "ProgramData">>
\* $SHELL; XDG_CONFIG_HOME is unset.
SHELL        == <<"bin", "bash">>

\* The directory of the running installer binary and its file name.
current_exe_dir  == <<"src">>
current_exe_name == "app"
current_exe      == Join(current_exe_dir, <<current_exe_name>>)

\* The string of a sequence of characters, as a path component holds it.
RECURSIVE AsStr(_)
AsStr(chars) == IF chars = <<>> THEN "" ELSE Head(chars) \o AsStr(Tail(chars))

\* format!("takecrate-manifest__{}.ron", app_id.namespaced_id())
ManifestFileName(app_id) ==
    "takecrate-manifest__" \o AsStr(app_id.namespaced_id) \o ".ron"

\* manifest/discovery.rs: manifest_path
manifest_path(family, app_id, access_scope) ==
    LET state_path ==
            IF family = "windows"
            THEN (IF access_scope = "User" THEN LOCALAPPDATA ELSE PROGRAMDATA)
            ELSE (IF access_scope = "User" THEN Join(HOME, <<".config">>)
                  ELSE <<"var", "local", "lib">>)
    IN  Join(Join(state_path, <<"io.crates.takecrate">>), <<ManifestFileName(app_id)>>)

\* path.rs: AppPathPrefix values
PrefixUser          == [kind |-> "User", path |-> <<>>]
PrefixSystem        == [kind |-> "System", path |-> <<>>]
SingleDir(path)     == [kind |-> "SingleDir", path |-> path]
CustomUnix(path)    == [kind |-> "CustomUnix", path |-> path]

\* The environment variables of the modelled machine.
MachineEnv ==
    [ HOME |-> HOME, LOCALAPPDATA |-> LOCALAPPDATA, PROGRAMFILES |-> PROGRAMFILES,
      SHELL |-> SHELL ]

\* path.rs: PathResolver::get_env_var; None is Err(InvalidEnvironmentVariable).
get_env_var(env, key) == IF key \in DOMAIN env THEN Some(env[key]) ELSE None

\* path.rs: PathResolver::resolve_prefix, resolve_user_prefix and
\* resolve_system_prefix; None is the error get_env_var returned.
resolve_prefix_in(env, family, plain_id, prefix) ==
    CASE prefix.kind = "SingleDir"  -> Some([kind |-> "SingleDir", path |-> prefix.path])
      [] prefix.kind = "CustomUnix" -> Some([kind |-> "Unix", path |-> prefix.path])
      [] prefix.kind = "User" ->
            IF family = "windows"
            THEN LET dir == get_env_var(env, "LOCALAPPDATA") IN
                 IF IsSome(dir)
                 THEN Some([kind |-> "SingleDir",
                            path |-> Join(Unwrap(dir), <<"Programs", AsStr(plain_id)>>)])
                 ELSE None
            ELSE LET dir == get_env_var(env, "HOME") IN
                 IF IsSome(dir)
                 THEN Some([kind |-> "Unix", path |-> Join(Unwrap(dir), <<".local">>)])
                 ELSE None
      [] prefix.kind = "System" ->
            IF family = "windows"
            THEN LET dir == get_env_var(env, "PROGRAMFILES") IN
                 IF IsSome(dir)
                 THEN Some([kind |-> "SingleDir",
                            path |-> Join(Unwrap(dir), <<AsStr(plain_id)>>)])
                 ELSE None
            ELSE Some([kind |-> "Unix", path |-> <<"usr", "local">>])

\* PathResolver::resolve_prefix on the modelled machine, where the variables
\* are set.
resolve_prefix(family, plain_id, prefix) ==
    Unwrap(resolve_prefix_in(MachineEnv, family, plain_id, prefix))

\* bin_dir, were a single-directory prefix to hold the binaries itself.
bin_dir_single_flat(resolved) ==
    IF resolved.kind = "SingleDir" THEN resolved.path
    ELSE Join(resolved.path, <<"bin">>)

\* path.rs: PathResolver::bin_dir
bin_dir(resolved) == Join(resolved.path, <<"bin">>)

\* data_dir, were every prefix to use the Unix layout.
data_dir_unix_layout(plain_id, resolved) ==
    Join(resolved.path, <<"share", AsStr(plain_id)>>)

\* path.rs: PathResolver::data_dir
data_dir(plain_id, resolved) ==
    IF resolved.kind = "SingleDir" THEN resolved.path
    ELSE Join(resolved.path, <<"share", AsStr(plain_id)>>)

\* ------------------------------------------------ packages and configs

FileEntry(package_path, target_path, file_type, is_main) ==
    [ package_path |-> package_path, target_path |-> target_path,
      file_type |-> file_type, is_main_executable |-> is_main ]

PackageManifest(app_id, files) ==
    [ app_id |-> app_id,
      app_metadata |-> [display_name |-> "App", display_version |-> "1.0"],
      files |-> files,
      interactive_uninstall_args |-> <<"self", "uninstall">>,
      quiet_uninstall_args |-> <<"self", "uninstall", "--quiet">> ]

\* PackageManifest::new(..).with_self_exe().with_file_entry("d.bin", Data)
PkgBasic ==
    PackageManifest(AppA,
        << FileEntry(<<current_exe_name>>, <<current_exe_name>>, "Executable", TRUE),
           FileEntry(<<"d.bin">>, <<"d.bin">>, "Data", FALSE) >>)

\* PackageManifest::new(..).with_self_exe().with_self_exe_renamed("alias")
PkgTwoMain ==
    PackageManifest(AppA,
        << FileEntry(<<current_exe_name>>, <<current_exe_name>>, "Executable", TRUE),
           FileEntry(<<current_exe_name>>, <<"alias">>, "Executable", TRUE) >>)

\* PackageManifest::new(..).with_file_entry("d.bin", Data): no main executable
PkgNoMain ==
    PackageManifest(AppA, << FileEntry(<<"d.bin">>, <<"d.bin">>, "Data", FALSE) >>)

Packages == {PkgBasic, PkgTwoMain, PkgNoMain}

InstallConfig(access_scope, destination, modify) ==
    [ access_scope |-> access_scope, destination |-> destination,
      source_dir |-> current_exe_dir, modify_os_search_path |-> modify ]

Configs(family) ==
    IF family = "unix"
    THEN { InstallConfig("User", SingleDir(<<"tmp", "X">>), FALSE),
           InstallConfig("User", CustomUnix(<<"tmp", "Y">>), FALSE),
           InstallConfig("User", PrefixUser, TRUE),
           InstallConfig("System", PrefixSystem, TRUE) }
    ELSE { InstallConfig("User", PrefixUser, TRUE),
           InstallConfig("System", PrefixSystem, TRUE) }


\* ------------------------------------------------------------------ state

VARIABLES
    family,          \* std::env::consts::FAMILY of the build
    package,         \* the PackageManifest the host program submits
    config,          \* the InstallConfig the host program submits
    files,           \* file system: path -> content, for every existing file
    dirs,            \* file system: the existing directories
    registry,        \* Windows registry: Path values, App Paths, Uninstall keys
    op,              \* the running (or last finished) top-level call
    pc,              \* position inside Installer::run / Uninstaller::run
    caller,          \* "install" when the uninstaller runs inside Installer::run
    result,          \* what the last finished call returned
    plan,            \* Installer.plan
    idx,             \* loop position in copy_files / remove_files / remove_dirs
    current,         \* copy_files' running byte count
    app_id,          \* Uninstaller.app_id
    manifest,        \* Uninstaller.manifest
    manual_manifest, \* Uninstaller.manual_manifest
    opsLeft,         \* calls the host program may still make
    envLeft,         \* changes another actor may still make
    faultsLeft,      \* system calls that may still fail
    log,             \* history: what the running call did, in order
    before,          \* history: files, dirs, registry when the call started
    prev,            \* history: the call finished before this one
    touched          \* history: another actor acted since the last call began

vars == << family, package, config, files, dirs, registry, op, pc, caller, result,
           plan, idx, current, app_id, manifest, manual_manifest, opsLeft, envLeft, faultsLeft,
           log, before, prev, touched >>


\* ------------------------------------------------------------ file system

\* Path::exists
exists(fs, ds, p) == p \in DOMAIN fs \/ p \in ds

\* File::open(p) succeeds for a regular file
is_file(fs, p) == p \in DOMAIN fs

\* std::fs::create_dir_all
create_dir_all(ds, p) == ds \cup Ancestors(p)

\* the file system with p written
write_file(fs, p, content) == [q \in DOMAIN fs \cup {p} |-> IF q = p THEN content ELSE fs[q]]

\* std::fs::remove_file
remove_file(fs, p) == [q \in DOMAIN fs \ {p} |-> fs[q]]

\* The emptiness test, were it to count the subdirectories only.
dir_is_empty_of_dirs(fs, ds, p) == \A d \in ds : Parent(d) # p

\* std::fs::read_dir(p).count() == 0
dir_is_empty(fs, ds, p) ==
    /\ \A q \in DOMAIN fs : Parent(q) # p
    /\ \A d \in ds : Parent(d) # p

\* os.rs: file_checksum. A manifest or profile has the checksum of its text,
\* kept symbolic: equal exactly when the texts are.
file_checksum(content) ==
    IF content.kind = "bytes" THEN ChecksumTable[content.bytes]
    ELSE [crc32c |-> <<"crc32c", content>>, len |-> <<"len", content>>]


\* -------------------------------------------------------------- os/unix.rs

IsPrefix(a, b) == Len(a) <= Len(b) /\ SubSeq(b, 1, Len(a)) = a

\* Path::file_name of a path given by its component names: None for the
\* empty path and for a path that ends in "..".
file_name(path) ==
    IF path = <<>> \/ path[Len(path)] = ".." THEN None ELSE Some(path[Len(path)])

\* get_current_shell_profile, were the shell-specific file to go last.
get_current_shell_profile_default_first(env, fs, ds) ==
    LET home == get_env_var(env, "HOME") IN
    IF ~IsSome(home) THEN None
    ELSE LET zsh_profile     == Join(Unwrap(home), <<".zprofile">>)
             bash_profile    == Join(Unwrap(home), <<".bash_profile">>)
             default_profile == Join(Unwrap(home), <<".profile">>)
             shell_path      == IF "SHELL" \in DOMAIN env THEN env["SHELL"] ELSE <<>>
             shell_name      == file_name(shell_path)
         IN  IF ~IsSome(shell_name) THEN Some(default_profile)
             ELSE IF exists(fs, ds, default_profile) THEN Some(default_profile)
             ELSE CASE Unwrap(shell_name) = "zsh"  -> Some(zsh_profile)
                    [] Unwrap(shell_name) = "bash" -> Some(bash_profile)
                    [] OTHER -> Some(default_profile)

\* get_current_shell_profile in the environment env; None is the error of
\* get_home. $SHELL unset or not Unicode counts as the empty path.
get_current_shell_profile_in(env, fs, ds) ==
    LET home == get_env_var(env, "HOME") IN
    IF ~IsSome(home) THEN None
    ELSE LET zsh_profile     == Join(Unwrap(home), <<".zprofile">>)
             bash_profile    == Join(Unwrap(home), <<".bash_profile">>)
             default_profile == Join(Unwrap(home), <<".profile">>)
             shell_path      == IF "SHELL" \in DOMAIN env THEN env["SHELL"] ELSE <<>>
             shell_name      == file_name(shell_path)
         IN  IF ~IsSome(shell_name) THEN Some(default_profile)
             ELSE CASE Unwrap(shell_name) = "zsh" /\ exists(fs, ds, zsh_profile) ->
                            Some(zsh_profile)
                    [] Unwrap(shell_name) = "bash" /\ exists(fs, ds, bash_profile) ->
                            Some(bash_profile)
                    [] OTHER ->
                        IF exists(fs, ds, default_profile) THEN Some(default_profile)
                        ELSE CASE Unwrap(shell_name) = "zsh"  -> Some(zsh_profile)
                               [] Unwrap(shell_name) = "bash" -> Some(bash_profile)
                               [] OTHER -> Some(default_profile)

\* get_current_shell_profile on the modelled machine, where HOME is set.
get_current_shell_profile(fs, ds) ==
    Unwrap(get_current_shell_profile_in(MachineEnv, fs, ds))

\* path_to_shell_script_path: "$HOME/<rest>" for a path under home
path_to_shell_script_path(path, home) ==
    IF IsPrefix(home, path)
    THEN <<"$HOME">> \o SubSeq(path, Len(home) + 1, Len(path))
    ELSE path

\* Path components holding a control character or a double quote.
UnsafeComponents == {"a\"b", "a\nb"}

\* verify_safe_for_shell_script
verify_safe_for_shell_script(path_str) ==
    \A i \in 1..Len(path_str) : path_str[i] \notin UnsafeComponents

\* A profile is a sequence of tokens: literal text, or a path written out.
Lit(t) == <<"lit", t>>
PathStr(p) == <<"path", p>>

\* PROFILE_SHELL_TEMPLATE_SNIPPET.replace("{path}", path)
Snippet(path) ==
    << Lit("\n## <io.crates.takecrate> Automatically inserted snippet\nif [ -d \""),
       PathStr(path),
       Lit("\" ] ; then\n    PATH=\""),
       PathStr(path),
       Lit(":$PATH\"\nfi\n## </io.crates.takecrate>\n") >>

\* str::contains for a token sequence
ContainsSeq(text, pat) ==
    \E i \in 1..(Len(text) - Len(pat) + 1) : SubSeq(text, i, i + Len(pat) - 1) = pat

\* str::replace(pat, ""): every non-overlapping match, left to right
RECURSIVE RemoveAll(_, _)
RemoveAll(text, pat) ==
    IF Len(text) < Len(pat) THEN text
    ELSE IF SubSeq(text, 1, Len(pat)) = pat
         THEN RemoveAll(SubSeq(text, Len(pat) + 1, Len(text)), pat)
         ELSE <<Head(text)>> \o RemoveAll(Tail(text), pat)

\* add_path_env_var_user, were it to append without reading the profile.
add_path_env_var_user_unread(fs, ds, exe_dir, profile_path) ==
    LET exe_dir_shell_path == path_to_shell_script_path(exe_dir, HOME)
        old == IF is_file(fs, profile_path) THEN fs[profile_path].text ELSE <<>>
    IN  IF ~verify_safe_for_shell_script(exe_dir_shell_path)
        THEN [kind |-> "Io", files |-> fs]
        ELSE [kind |-> "Ok",
              files |-> write_file(fs, profile_path,
                                   Text(old \o Snippet(exe_dir_shell_path)))]

\* add_path_env_var_user, were it to leave out verify_safe_for_shell_script.
add_path_env_var_user_unverified(fs, ds, exe_dir, profile_path) ==
    LET exe_dir_shell_path == path_to_shell_script_path(exe_dir, HOME)
        old == IF is_file(fs, profile_path) THEN fs[profile_path].text ELSE <<>>
    IN  IF exists(fs, ds, profile_path) /\ ContainsSeq(old, <<PathStr(exe_dir_shell_path)>>)
        THEN [kind |-> "Ok", files |-> fs]
        ELSE [kind |-> "Ok",
              files |-> write_file(fs, profile_path,
                                   Text(old \o Snippet(exe_dir_shell_path)))]

\* add_path_env_var_user: the outcome and the file system it leaves
add_path_env_var_user(fs, ds, exe_dir, profile_path) ==
    LET exe_dir_shell_path == path_to_shell_script_path(exe_dir, HOME)
        old == IF is_file(fs, profile_path) THEN fs[profile_path].text ELSE <<>>
    IN  IF ~verify_safe_for_shell_script(exe_dir_shell_path)
        THEN [kind |-> "Io", files |-> fs]
        ELSE IF exists(fs, ds, profile_path) /\ ContainsSeq(old, <<PathStr(exe_dir_shell_path)>>)
        THEN [kind |-> "Ok", files |-> fs]
        ELSE [kind |-> "Ok",
              files |-> write_file(fs, profile_path,
                                   Text(old \o Snippet(exe_dir_shell_path)))]

\* remove_path_env_var_user, were it to write the profile without looking
\* for it first.
remove_path_env_var_user_unchecked(fs, ds, exe_dir, profile_path) ==
    LET exe_dir_shell_path == path_to_shell_script_path(exe_dir, HOME)
        snippet == Snippet(exe_dir_shell_path)
        old == IF is_file(fs, profile_path) THEN fs[profile_path].text ELSE <<>>
    IN  IF ~verify_safe_for_shell_script(exe_dir_shell_path)
        THEN [kind |-> "Io", files |-> fs]
        ELSE [kind |-> "Ok",
              files |-> write_file(fs, profile_path, Text(RemoveAll(old, snippet)))]

\* remove_path_env_var_user
remove_path_env_var_user(fs, ds, exe_dir, profile_path) ==
    LET exe_dir_shell_path == path_to_shell_script_path(exe_dir, HOME)
        snippet == Snippet(exe_dir_shell_path)
    IN  IF ~verify_safe_for_shell_script(exe_dir_shell_path)
        THEN [kind |-> "Io", files |-> fs]
        ELSE IF ~exists(fs, ds, profile_path) THEN [kind |-> "Ok", files |-> fs]
        ELSE IF ~ContainsSeq(fs[profile_path].text, snippet)
        THEN [kind |-> "Ok", files |-> fs]
        ELSE [kind |-> "Ok",
              files |-> write_file(fs, profile_path,
                                   Text(RemoveAll(fs[profile_path].text, snippet)))]

\* add_path_env_var: unimplemented!() for the System scope
unix_add_path_env_var(fs, ds, access_scope, exe_dir, profile) ==
    IF access_scope = "User" THEN add_path_env_var_user(fs, ds, exe_dir, profile)
    ELSE [kind |-> "Panic", files |-> fs]

\* remove_path_env_var: unimplemented!() for the System scope
unix_remove_path_env_var(fs, ds, access_scope, exe_dir, profile) ==
    IF access_scope = "User" THEN remove_path_env_var_user(fs, ds, exe_dir, profile)
    ELSE [kind |-> "Panic", files |-> fs]

\* ----------------------------------------------------------- os/windows.rs

Scopes == {"User", "System"}

\* u8::to_ascii_lowercase over a path, component by component
AsciiLower(path) ==
    [i \in 1..Len(path) |->
        CASE path[i] = "C:" -> "c:"
          [] path[i] = "Local" -> "local"
          [] path[i] = "Programs" -> "programs"
          [] path[i] = "Program Files" -> "program files"
          [] path[i] = "Windows" -> "windows"
          [] OTHER -> path[i]]

eq_ignore_ascii_case(a, b) == AsciiLower(a) = AsciiLower(b)

\* remove_part_in_path_env_var_str: the Path value is the sequence of its
\* ';'-separated parts (the empty string has none)
remove_part_in_path_env_var_str(path_env_var, path_dir) ==
    SelectSeq(path_env_var, LAMBDA part : part # <<>> /\ ~eq_ignore_ascii_case(part, path_dir))

\* remove_path_env_var
win_remove_path_env_var(reg, access_scope, exe_dir) ==
    [reg EXCEPT !.path[access_scope] = remove_part_in_path_env_var_str(@, exe_dir)]

\* add_path_env_var: remove the duplicates, then push ";" and exe_dir
win_add_path_env_var(reg, access_scope, exe_dir) ==
    LET value == win_remove_path_env_var(reg, access_scope, exe_dir).path[access_scope]
    IN  [reg EXCEPT !.path[access_scope] =
            IF value = <<>> THEN << <<>>, exe_dir >> ELSE value \o <<exe_dir>>]

\* add_app_path: App Paths\<exe_name>, default value exe_path
add_app_path(reg, access_scope, exe_name, exe_path) ==
    [reg EXCEPT !.app_paths =
        { e \in @ : ~(e.scope = access_scope /\ e.exe_name = exe_name) }
        \cup { [scope |-> access_scope, exe_name |-> exe_name, exe_path |-> exe_path] }]

\* remove_app_path
remove_app_path(reg, access_scope, exe_name) ==
    [reg EXCEPT !.app_paths =
        { e \in @ : ~(e.scope = access_scope /\ e.exe_name = exe_name) }]

\* add_uninstall_entry: Uninstall\<uuid>
add_uninstall_entry(reg, access_scope, id, exe_path, exe_args, mpath) ==
    [reg EXCEPT !.uninstall =
        { e \in @ : ~(e.scope = access_scope /\ e.uuid = id.uuid) }
        \cup { [scope |-> access_scope, uuid |-> id.uuid,
                UninstallString |-> <<exe_path, exe_args>>,
                takecrate_manifest_path |-> mpath] }]

\* remove_uninstall_entry
remove_uninstall_entry(reg, access_scope, id) ==
    [reg EXCEPT !.uninstall =
        { e \in @ : ~(e.scope = access_scope /\ e.uuid = id.uuid) }]


\* ---------------------------------------------------------- manifest/disk.rs

\* DiskManifest::to_writer: every field but manifest_path (#[serde(skip)])
to_writer(m) == Ron([f \in DOMAIN m \ {"manifest_path"} |-> m[f]])

\* DiskManifest::from_reader: manifest_path takes its Default
from_reader(content) == [manifest_path |-> <<>>] @@ content.doc

\* load, were it to leave manifest_path as from_reader made it.
load_without_path(fs, path) ==
    IF ~is_file(fs, path) THEN [kind |-> "Io"]
    ELSE IF fs[path].kind # "ron" THEN [kind |-> "MalformedDiskManifest"]
    ELSE [kind |-> "Ok", manifest |-> from_reader(fs[path])]

\* DiskManifest::load: MalformedDiskManifest unless the file is a manifest
load(fs, path) ==
    IF ~is_file(fs, path) THEN [kind |-> "Io"]
    ELSE IF fs[path].kind # "ron" THEN [kind |-> "MalformedDiskManifest"]
    ELSE [kind |-> "Ok",
          manifest |-> [from_reader(fs[path]) EXCEPT !.manifest_path = path]]

\* DiskManifest::main_executable / InstallPlan::main_executable:
\* files.iter().find(|entry| entry.is_main_executable)
main_executable(entries) ==
    IF \E i \in 1..Len(entries) : entries[i].is_main_executable
    THEN Some(entries[CHOOSE i \in 1..Len(entries) :
                        /\ entries[i].is_main_executable
                        /\ \A j \in 1..(i - 1) : ~entries[j].is_main_executable])
    ELSE None

RECURSIVE SumLen(_)
\* total_file_size: files.iter().map(|entry| entry.len).sum()
SumLen(entries) ==
    IF entries = <<>> THEN 0 ELSE Head(entries).len + SumLen(Tail(entries))

\* ----------------------------------------------------- manifest/discovery.rs

\* exe_path.join("../<name>").exists(): Windows resolves ".." lexically, Unix
\* walks through exe_path, which must then be a directory
sibling_exists(fam, fs, ds, exe_path, name) ==
    /\ fam = "unix" => exe_path \in ds
    /\ exists(fs, ds, Join(Parent(exe_path), <<name>>))

\* discover_manifest: sibling of the executable, then User, then System
discover_manifest(fam, fs, ds, exe_path, id) ==
    LET single_dir_path == Join(Parent(exe_path), <<ManifestFileName(id)>>)
        user_path   == manifest_path(fam, id, "User")
        system_path == manifest_path(fam, id, "System")
    IN  CASE sibling_exists(fam, fs, ds, exe_path, ManifestFileName(id)) ->
                load(fs, single_dir_path)
          [] OTHER ->
                IF exists(fs, ds, user_path) THEN load(fs, user_path)
                ELSE IF exists(fs, ds, system_path) THEN load(fs, system_path)
                ELSE [kind |-> "DiskManifestNotFound"]

\* ------------------------------------------------------------ inst/package.rs

\* verify, were it to ask for no main executable.
verify_sources_only(pkg, fs, source_dir) ==
    IF \E i \in 1..Len(pkg.files) :
            ~is_file(fs, Join(source_dir, pkg.files[i].package_path))
    THEN "InvalidPackageManifest"
    ELSE "Ok"

\* PackageManifest::verify: a main executable, and every source can be opened
verify(pkg, fs, source_dir) ==
    IF main_executable(pkg.files) = None THEN "InvalidPackageManifest"
    ELSE IF \E i \in 1..Len(pkg.files) :
                ~is_file(fs, Join(source_dir, pkg.files[i].package_path))
    THEN "InvalidPackageManifest"
    ELSE "Ok"

\* --------------------------------------------------------------- inst/plan.rs

ReservedFileTypes == {"Library", "Configuration", "Documentation"}

\* enum FileType
FileTypes == {"Executable", "Data"} \cup ReservedFileTypes

\* Planner::run
planner_run(fam, pkg, cfg, fs, ds) ==
    LET resolved      == resolve_prefix(fam, pkg.app_id.plain_id, cfg.destination)
        dest_bin_dir  == bin_dir(resolved)
        dest_data_dir == data_dir(pkg.app_id.plain_id, resolved)
        n             == Len(pkg.files)
        source(i)     == Join(cfg.source_dir, pkg.files[i].package_path)
        reserved(i)   == pkg.files[i].file_type \in ReservedFileTypes
        stops         == { i \in 1..n : reserved(i) \/ ~is_file(fs, source(i)) }
        first         == CHOOSE i \in stops : \A j \in stops : i <= j
        destination(i) ==
            IF pkg.files[i].file_type = "Executable"
            THEN Join(dest_bin_dir, pkg.files[i].target_path)
            ELSE Join(dest_data_dir, pkg.files[i].target_path)
        mains == { i \in 1..n : pkg.files[i].is_main_executable }
        last_main == CHOOSE i \in mains : \A j \in mains : j <= i
    IN  IF stops # {}
        THEN [kind |-> IF reserved(first) THEN "Panic" ELSE "Io"]
        ELSE [kind |-> "Ok", plan |->
          [ display_name    |-> pkg.app_metadata.display_name,
            display_version |-> pkg.app_metadata.display_version,
            access_scope    |-> cfg.access_scope,
            manifest_path   |-> manifest_path(fam, pkg.app_id, cfg.access_scope),
            destination     |-> cfg.destination,
            dirs |-> << [destination_path |-> dest_bin_dir,
                         preserve |-> exists(fs, ds, dest_bin_dir)],
                        [destination_path |-> dest_data_dir,
                         preserve |-> exists(fs, ds, dest_data_dir)] >>,
            files |-> [i \in 1..n |->
                       [ source_path        |-> source(i),
                         destination_path   |-> destination(i),
                         file_type          |-> pkg.files[i].file_type,
                         is_main_executable |-> pkg.files[i].is_main_executable,
                         len    |-> file_checksum(fs[source(i)]).len,
                         crc32c |-> file_checksum(fs[source(i)]).crc32c ]],
            search_path |-> IF cfg.modify_os_search_path
                            THEN Some(dest_bin_dir) ELSE None,
            app_path |-> IF fam = "windows" /\ cfg.modify_os_search_path /\ mains # {}
                         THEN Some([ exe_name |->
                                       IF pkg.files[last_main].target_path = <<>> THEN ""
                                       ELSE pkg.files[last_main].target_path[
                                               Len(pkg.files[last_main].target_path)],
                                     exe_path |-> destination(last_main) ])
                         ELSE None,
            shell_profile_path |-> IF fam = "unix" /\ cfg.modify_os_search_path
                                   THEN Some(get_current_shell_profile(fs, ds))
                                   ELSE None,
            interactive_uninstall_args |-> pkg.interactive_uninstall_args,
            quiet_uninstall_args       |-> pkg.quiet_uninstall_args ]]

\* --------------------------------------------------------------- inst/exec.rs

\* Executor::populate_disk_manifest. It assigns no shell_profile_path, which so
\* keeps its Default; app_path_exe_name exists on Windows only.
populate_disk_manifest(id, p) ==
    [ manifest_version |-> 0,
      manifest_path    |-> <<>>,
      app_id           |-> id,
      app_name         |-> p.display_name,
      app_version      |-> p.display_version,
      access_scope     |-> p.access_scope,
      app_path_prefix  |-> p.destination,
      dirs  |-> [i \in 1..Len(p.dirs) |->
                   [path |-> p.dirs[i].destination_path, preserve |-> p.dirs[i].preserve]],
      files |-> [i \in 1..Len(p.files) |->
                   [ path |-> p.files[i].destination_path,
                     len |-> p.files[i].len,
                     crc32c |-> p.files[i].crc32c,
                     file_type |-> p.files[i].file_type,
                     is_main_executable |-> p.files[i].is_main_executable ]],
      search_path        |-> p.search_path,
      app_path_exe_name  |-> IF IsSome(p.app_path)
                             THEN Some(Unwrap(p.app_path).exe_name) ELSE None,
      shell_profile_path |-> None ]

\* copy_file, were it to overwrite an unknown destination file.
copy_file_overwrite(fs, ds, content, source_checksum, destination) ==
    IF exists(fs, ds, destination) /\ ~is_file(fs, destination)
    THEN [kind |-> "Io", did |-> "nothing", files |-> fs, dirs |-> ds]
    ELSE IF exists(fs, ds, destination)
            /\ source_checksum = file_checksum(fs[destination])
    THEN [kind |-> "Ok", did |-> "skip", files |-> fs, dirs |-> ds]
    ELSE IF \E a \in Ancestors(Parent(destination)) : is_file(fs, a)
    THEN [kind |-> "Io", did |-> "nothing", files |-> fs, dirs |-> ds]
    ELSE [kind |-> "Ok", did |-> "copy",
          files |-> write_file(fs, destination, content),
          dirs  |-> create_dir_all(ds, Parent(destination))]

\* copy_file, were it to write over an unknown destination file and then
\* report it.
copy_file_clobber(fs, ds, content, source_checksum, destination) ==
    IF exists(fs, ds, destination) /\ ~is_file(fs, destination)
    THEN [kind |-> "Io", did |-> "nothing", files |-> fs, dirs |-> ds]
    ELSE IF exists(fs, ds, destination)
    THEN IF source_checksum = file_checksum(fs[destination])
         THEN [kind |-> "Ok", did |-> "skip", files |-> fs, dirs |-> ds]
         ELSE [kind |-> "UnknownFileInDestination", did |-> "nothing",
               files |-> write_file(fs, destination, content), dirs |-> ds]
    ELSE IF \E a \in Ancestors(Parent(destination)) : is_file(fs, a)
    THEN [kind |-> "Io", did |-> "nothing", files |-> fs, dirs |-> ds]
    ELSE [kind |-> "Ok", did |-> "copy",
          files |-> write_file(fs, destination, content),
          dirs  |-> create_dir_all(ds, Parent(destination))]

\* copy_file, were it to refuse every existing destination file.
copy_file_strict(fs, ds, content, source_checksum, destination) ==
    IF exists(fs, ds, destination)
    THEN IF ~is_file(fs, destination)
         THEN [kind |-> "Io", did |-> "nothing", files |-> fs, dirs |-> ds]
         ELSE [kind |-> "UnknownFileInDestination", did |-> "nothing",
               files |-> fs, dirs |-> ds]
    ELSE IF \E a \in Ancestors(Parent(destination)) : is_file(fs, a)
    THEN [kind |-> "Io", did |-> "nothing", files |-> fs, dirs |-> ds]
    ELSE [kind |-> "Ok", did |-> "copy",
          files |-> write_file(fs, destination, content),
          dirs  |-> create_dir_all(ds, Parent(destination))]

\* Executor::copy_file: what it returns, and the file system it leaves.
\* "did" tells the copy from the skip.
copy_file(fs, ds, content, source_checksum, destination) ==
    IF exists(fs, ds, destination)
    THEN IF ~is_file(fs, destination)
         THEN [kind |-> "Io", did |-> "nothing", files |-> fs, dirs |-> ds]
         ELSE IF source_checksum = file_checksum(fs[destination])
         THEN [kind |-> "Ok", did |-> "skip", files |-> fs, dirs |-> ds]
         ELSE [kind |-> "UnknownFileInDestination", did |-> "nothing",
               files |-> fs, dirs |-> ds]
    ELSE IF \E a \in Ancestors(Parent(destination)) : is_file(fs, a)
    THEN [kind |-> "Io", did |-> "nothing", files |-> fs, dirs |-> ds]
    ELSE [kind |-> "Ok", did |-> "copy",
          files |-> write_file(fs, destination, content),
          dirs  |-> create_dir_all(ds, Parent(destination))]


\* ------------------------------------------------------------ initial state

\* The destination of every file of a package under a config.
DestPaths(fam, pkg, cfg) ==
    LET resolved == resolve_prefix(fam, pkg.app_id.plain_id, cfg.destination)
    IN  { Join(IF pkg.files[i].file_type = "Executable" THEN bin_dir(resolved)
               ELSE data_dir(pkg.app_id.plain_id, resolved),
               pkg.files[i].target_path) : i \in 1..Len(pkg.files) }

\* Directories every machine of the family has.
BaseDirs(fam) ==
    UNION { Ancestors(d) :
            d \in IF fam = "unix"
                  THEN {HOME, <<"tmp">>, current_exe_dir, <<"usr", "local">>}
                  ELSE {LOCALAPPDATA, PROGRAMFILES, PROGRAMDATA, current_exe_dir} }

\* The installer binary and its data file, and on Unix the user's ~/.profile.
BaseFiles(fam) ==
    LET sources == (current_exe :> Bytes(ExeBytes))
                   @@ (Join(current_exe_dir, <<"d.bin">>) :> Bytes(DataBytes))
    IN  IF fam = "unix"
        THEN sources @@ (Join(HOME, <<".profile">>) :> Text(<<Lit("# ~/.profile\n")>>))
        ELSE sources

NoManifest == [manifest_path |-> <<>>]
NoPlan     == [manifest_path |-> <<>>]

\* The installation an administrator made before: System scope, the system
\* prefix, the search path left alone.
SystemConfig == InstallConfig("System", PrefixSystem, FALSE)

\* Installer::run of pkg under cfg on a machine m without the application,
\* no step failing: the manifest file, every file copied, the directories
\* made for them, and on Windows the uninstall entry.
installed(fam, pkg, cfg, m) ==
    LET p       == planner_run(fam, pkg, cfg, m.files, m.dirs).plan
        content == to_writer(populate_disk_manifest(pkg.app_id, p))
        dests   == { p.files[i].destination_path : i \in 1..Len(p.files) }
        source(d) == (CHOOSE i \in 1..Len(p.files) :
                            p.files[i].destination_path = d)
    IN  [ files |-> [ f \in DOMAIN m.files \cup {p.manifest_path} \cup dests |->
                        IF f = p.manifest_path THEN content
                        ELSE IF f \in dests
                        THEN m.files[p.files[source(f)].source_path]
                        ELSE m.files[f] ],
          dirs |-> m.dirs \cup UNION { Ancestors(Parent(f)) :
                                         f \in {p.manifest_path} \cup dests },
          registry |->
            IF /\ fam = "windows"
               /\ p.interactive_uninstall_args # <<>>
               /\ IsSome(main_executable(p.files))
            THEN add_uninstall_entry(m.registry, p.access_scope, pkg.app_id,
                        Unwrap(main_executable(p.files)).destination_path,
                        p.interactive_uninstall_args, p.manifest_path)
            ELSE m.registry ]

Init ==
    /\ family \in Families
    /\ package \in Packages
    /\ config \in Configs(family)
    /\ \E pre \in { {}, { bin_dir(resolve_prefix(family, package.app_id.plain_id,
                                                config.destination)),
                        data_dir(package.app_id.plain_id,
                                 resolve_prefix(family, package.app_id.plain_id,
                                                config.destination)) } },
          system \in BOOLEAN :
          LET clean == [ files |-> BaseFiles(family),
                         dirs |-> BaseDirs(family) \cup UNION { Ancestors(d) : d \in pre },
                         registry |-> [ path |-> [s \in Scopes |-> << <<"C:", "Windows">> >>],
                                        app_paths |-> {}, uninstall |-> {} ] ]
              m == IF system THEN installed(family, package, SystemConfig, clean)
                   ELSE clean
          IN  /\ system => /\ package = PkgBasic
                           /\ config = InstallConfig("User", PrefixUser, TRUE)
                           /\ pre = {}
              /\ files = m.files
              /\ dirs = m.dirs
              /\ registry = m.registry
    /\ op = "none"
    /\ pc = "idle"
    /\ caller = "none"
    /\ result = "none"
    /\ plan = NoPlan
    /\ idx = 0
    /\ current = 0
    /\ app_id = AppA
    /\ manifest = NoManifest
    /\ manual_manifest = None
    /\ opsLeft = MaxOps
    /\ envLeft = MaxEnvOps
    /\ faultsLeft = MaxFaults
    /\ log = <<>>
    /\ before = [files |-> files, dirs |-> dirs, registry |-> registry]
    /\ prev = [op |-> "none", result |-> "none", touched |-> FALSE,
               before |-> [files |-> files, dirs |-> dirs, registry |-> registry]]
    /\ touched = FALSE

\* ------------------------------------------------------------ the host calls

Fixed == UNCHANGED << family, package, config >>

\* The call returns r to the host program.
Finish(r) ==
    /\ pc' = "idle"
    /\ result' = r
    /\ caller' = "none"

\* A top-level call begins: the histories are taken.
Begin(kind) ==
    /\ pc = "idle"
    /\ opsLeft > 0
    /\ opsLeft' = opsLeft - 1
    /\ op' = kind
    /\ result' = "none"
    /\ log' = <<>>
    /\ before' = [files |-> files, dirs |-> dirs, registry |-> registry]
    /\ prev' = [op |-> op, result |-> result, touched |-> touched, before |-> before]
    /\ touched' = FALSE


\* lib.rs: install(manifest, config) -> Installer::new(manifest).run(config)
InstallStart ==
    /\ Begin("install")
    /\ pc' = "i_verify"
    /\ caller' = "none"
    /\ plan' = NoPlan
    /\ idx' = 0
    /\ current' = 0
    /\ manifest' = NoManifest
    /\ manual_manifest' = None
    /\ UNCHANGED << files, dirs, registry, app_id, envLeft, faultsLeft >>
    /\ Fixed

\* Installer::run_interactive_impl fills its config from the prompts: the
\* source is the directory of the executable, the destination follows the
\* scope chosen, and the search-path question is put on Windows and for the
\* User scope only (the Default, false, stays otherwise). The user of a
\* behaviour gives the answers that make up its config.
Answerable(fam, cfg) ==
    /\ cfg.source_dir = current_exe_dir
    /\ cfg.destination = (IF cfg.access_scope = "User" THEN PrefixUser ELSE PrefixSystem)
    /\ (fam = "unix" /\ cfg.access_scope = "System") => ~cfg.modify_os_search_path

\* lib.rs: install_interactive(manifest) -> Installer::new(manifest).run_interactive()
InstallInteractiveStart ==
    /\ Begin("install")
    /\ Answerable(family, config)
    /\ pc' = "g_verify"
    /\ caller' = "none"
    /\ plan' = NoPlan
    /\ idx' = 0
    /\ current' = 0
    /\ manifest' = NoManifest
    /\ manual_manifest' = None
    /\ UNCHANGED << files, dirs, registry, app_id, envLeft, faultsLeft >>
    /\ Fixed

\* lib.rs: uninstall_interactive(app_id) -> Uninstaller::new(app_id).run_interactive()
UninstallInteractiveStart ==
    /\ Begin("uninstall")
    /\ app_id' = package.app_id
    /\ manual_manifest' = None
    /\ pc' = "gu_discover"
    /\ caller' = "none"
    /\ plan' = NoPlan
    /\ idx' = 0
    /\ current' = 0
    /\ manifest' = NoManifest
    /\ UNCHANGED << files, dirs, registry, envLeft, faultsLeft >>
    /\ Fixed

\* lib.rs: uninstall(app_id) -> Uninstaller::new(app_id).run(), or with a
\* manifest the host loaded itself: Uninstaller::new(id).with_manifest(m).run()
UninstallStart ==
    /\ Begin("uninstall")
    /\ \E id \in AppIds, manual \in BOOLEAN :
        LET loaded == load(files, manifest_path(family, package.app_id, config.access_scope))
        IN  /\ manual => loaded.kind = "Ok"
            /\ manual <=> id # package.app_id
            /\ app_id' = id
            /\ manual_manifest' = IF manual THEN Some(loaded.manifest) ELSE None
    /\ pc' = "u_discover"
    /\ caller' = "none"
    /\ plan' = NoPlan
    /\ idx' = 0
    /\ current' = 0
    /\ manifest' = NoManifest
    /\ UNCHANGED << files, dirs, registry, envLeft, faultsLeft >>
    /\ Fixed


\* ------------------------------------------------------------- inst.rs

Counters == << opsLeft, envLeft, faultsLeft, before, prev, touched >>
Uninst   == << app_id, manifest, manual_manifest >>
Disk     == << files, dirs, registry >>

\* Installer::run: self.package_manifest.verify(&config.source_dir)?
Verify ==
    /\ pc \in {"i_verify", "g_verify"}
    /\ LET r == verify(package, files, config.source_dir)
       IN  IF r = "Ok"
           THEN /\ pc' = IF pc = "g_verify" THEN "g_intro" ELSE "i_plan"
                /\ UNCHANGED << result, caller >>
           ELSE Finish(r)
    /\ UNCHANGED << op, plan, idx, current, log, Counters, Uninst, Disk >>
    /\ Fixed

\* Installer::run_planner
RunPlanner ==
    /\ pc \in {"i_plan", "g_plan"}
    /\ LET r == planner_run(family, package, config, files, dirs)
       IN  IF r.kind = "Ok"
           THEN /\ plan' = r.plan
                /\ pc' = IF pc = "i_plan" THEN "i_uninstall"
                         ELSE IF exists(files, dirs, r.plan.manifest_path)
                         THEN "g_existing" ELSE "g_confirm"
                /\ UNCHANGED << result, caller >>
           ELSE Finish(r.kind) /\ UNCHANGED plan
    /\ UNCHANGED << op, idx, current, log, Counters, Uninst, Disk >>
    /\ Fixed

\* run_uninstaller, were it to leave an existing installation alone.
RunUninstaller_never ==
    /\ pc = "i_uninstall"
    /\ pc' = "x_check"
    /\ UNCHANGED << op, result, caller, plan, idx, current, log, Counters, Uninst, Disk >>
    /\ Fixed

\* Installer::run_uninstaller: an existing manifest is loaded and handed to
\* an Uninstaller, whose run() follows
RunUninstaller ==
    /\ pc = "i_uninstall"
    /\ IF ~exists(files, dirs, plan.manifest_path)
       THEN pc' = "x_check" /\ UNCHANGED << result, caller, Uninst >>
       ELSE LET l == load(files, plan.manifest_path)
            IN  IF l.kind # "Ok" THEN Finish(l.kind) /\ UNCHANGED Uninst
                ELSE /\ app_id' = l.manifest.app_id
                     /\ manual_manifest' = Some(l.manifest)
                     /\ pc' = "u_discover"
                     /\ caller' = "install"
                     /\ UNCHANGED << result, manifest >>
    /\ UNCHANGED << op, plan, idx, current, log, Counters, Disk >>
    /\ Fixed

\* ------------------------------------------------ inst/exec.rs: Executor::run

\* Executor::run, were it to go on to persist without the check.
ExecCheckExistingManifest_unchecked ==
    /\ pc = "x_check"
    /\ pc' = "x_persist"
    /\ UNCHANGED << result, caller >>
    /\ UNCHANGED << op, plan, idx, current, log, Counters, Uninst, Disk >>
    /\ Fixed

\* populate_disk_manifest, then check_existing_manifest
ExecCheckExistingManifest ==
    /\ pc = "x_check"
    /\ IF exists(files, dirs, plan.manifest_path)
       THEN Finish("AlreadyInstalled")
       ELSE pc' = "x_persist" /\ UNCHANGED << result, caller >>
    /\ UNCHANGED << op, plan, idx, current, log, Counters, Uninst, Disk >>
    /\ Fixed

\* persist_disk_manifest, were it to go on without writing the manifest.
ExecPersistDiskManifest_unwritten ==
    /\ pc = "x_persist"
    /\ pc' = IF Len(plan.files) = 0 THEN "x_path" ELSE "x_copy"
    /\ idx' = 1
    /\ current' = 0
    /\ UNCHANGED << result, caller, log, files, dirs >>
    /\ UNCHANGED << op, plan, registry, Counters, Uninst >>
    /\ Fixed

\* persist_disk_manifest: the manifest goes through copy_file
ExecPersistDiskManifest ==
    /\ pc = "x_persist"
    /\ LET content == to_writer(populate_disk_manifest(package.app_id, plan))
           r == copy_file(files, dirs, content, file_checksum(content), plan.manifest_path)
       IN  IF r.kind = "Ok"
           THEN /\ files' = r.files
                /\ dirs' = r.dirs
                /\ pc' = IF Len(plan.files) = 0 THEN "x_path" ELSE "x_copy"
                /\ idx' = 1
                /\ current' = 0
                /\ log' = Append(log, <<"persist", r.did, plan.manifest_path>>)
                /\ UNCHANGED << result, caller >>
           ELSE /\ Finish(r.kind)
                /\ files' = r.files
                /\ dirs' = r.dirs
                /\ UNCHANGED << idx, current, log >>
    /\ UNCHANGED << op, plan, registry, Counters, Uninst >>
    /\ Fixed

\* copy_files, were a refused copy to take the manifest file away again.
ExecCopyFiles_rollback ==
    /\ pc = "x_copy"
    /\ LET entry == plan.files[idx]
           r == copy_file(files, dirs, files[entry.source_path],
                          [crc32c |-> entry.crc32c, len |-> entry.len],
                          entry.destination_path)
       IN  IF r.kind = "Ok"
           THEN /\ files' = r.files
                /\ dirs' = r.dirs
                /\ current' = current + entry.len
                /\ idx' = idx + 1
                /\ pc' = IF idx = Len(plan.files) THEN "x_path" ELSE "x_copy"
                /\ log' = log \o << <<r.did, entry.destination_path>>,
                                    <<"progress", current + entry.len,
                                      SumLen(plan.files)>> >>
                /\ UNCHANGED << result, caller >>
           ELSE /\ Finish(r.kind)
                /\ log' = Append(log, <<"refused", entry.destination_path>>)
                /\ files' = remove_file(r.files, plan.manifest_path)
                /\ dirs' = r.dirs
                /\ UNCHANGED << idx, current >>
    /\ UNCHANGED << op, plan, registry, Counters, Uninst >>
    /\ Fixed

\* copy_files, were it to report the entry's own size and not the running sum.
ExecCopyFiles_entry_size ==
    /\ pc = "x_copy"
    /\ LET entry == plan.files[idx]
           r == copy_file(files, dirs, files[entry.source_path],
                          [crc32c |-> entry.crc32c, len |-> entry.len],
                          entry.destination_path)
       IN  IF r.kind = "Ok"
           THEN /\ files' = r.files
                /\ dirs' = r.dirs
                /\ current' = entry.len
                /\ idx' = idx + 1
                /\ pc' = IF idx = Len(plan.files) THEN "x_path" ELSE "x_copy"
                /\ log' = log \o << <<r.did, entry.destination_path>>,
                                    <<"progress", entry.len, SumLen(plan.files)>> >>
                /\ UNCHANGED << result, caller >>
           ELSE /\ Finish(r.kind)
                /\ files' = r.files
                /\ dirs' = r.dirs
                /\ log' = Append(log, <<"refused", entry.destination_path>>)
                /\ UNCHANGED << idx, current >>
    /\ UNCHANGED << op, plan, registry, Counters, Uninst >>
    /\ Fixed

\* copy_files: one turn of the loop. The entry is copied or skipped, its mode
\* applied, and the progress callback is called with (current, total)
ExecCopyFiles ==
    /\ pc = "x_copy"
    /\ LET entry == plan.files[idx]
           r == copy_file(files, dirs, files[entry.source_path],
                          [crc32c |-> entry.crc32c, len |-> entry.len],
                          entry.destination_path)
       IN  IF r.kind = "Ok"
           THEN /\ files' = r.files
                /\ dirs' = r.dirs
                /\ current' = current + entry.len
                /\ idx' = idx + 1
                /\ pc' = IF idx = Len(plan.files) THEN "x_path" ELSE "x_copy"
                /\ log' = log \o << <<r.did, entry.destination_path>>,
                                    <<"progress", current + entry.len,
                                      SumLen(plan.files)>> >>
                /\ UNCHANGED << result, caller >>
           ELSE /\ Finish(r.kind)
                /\ files' = r.files
                /\ dirs' = r.dirs
                /\ log' = Append(log, <<"refused", entry.destination_path>>)
                /\ UNCHANGED << idx, current >>
    /\ UNCHANGED << op, plan, registry, Counters, Uninst >>
    /\ Fixed

\* Executor::add_path_env_var
ExecAddPathEnvVar ==
    /\ pc = "x_path"
    /\ IF ~IsSome(plan.search_path)
       THEN pc' = "x_app_path" /\ UNCHANGED << result, caller, log, Disk >>
       ELSE IF family = "windows"
       THEN /\ registry' = win_add_path_env_var(registry, plan.access_scope,
                                                 Unwrap(plan.search_path))
            /\ log' = Append(log, <<"add_path", Unwrap(plan.search_path)>>)
            /\ pc' = "x_app_path"
            /\ UNCHANGED << result, caller, files, dirs >>
       ELSE LET profile == get_current_shell_profile(files, dirs)
                r == unix_add_path_env_var(files, dirs, plan.access_scope,
                                           Unwrap(plan.search_path), profile)
            IN  IF r.kind = "Ok"
                THEN /\ files' = r.files
                     /\ log' = Append(log, <<"add_path", profile>>)
                     /\ pc' = "x_app_path"
                     /\ UNCHANGED << result, caller, dirs, registry >>
                ELSE Finish(r.kind) /\ UNCHANGED << log, Disk >>
    /\ UNCHANGED << op, plan, idx, current, Counters, Uninst >>
    /\ Fixed

\* Executor::add_app_path (Windows)
ExecAddAppPath ==
    /\ pc = "x_app_path"
    /\ IF family = "windows" /\ IsSome(plan.app_path)
       THEN /\ registry' = add_app_path(registry, plan.access_scope,
                                        Unwrap(plan.app_path).exe_name,
                                        Unwrap(plan.app_path).exe_path)
            /\ log' = Append(log, <<"add_app_path", Unwrap(plan.app_path).exe_name>>)
       ELSE UNCHANGED << registry, log >>
    /\ pc' = "x_uninstall_entry"
    /\ UNCHANGED << op, result, caller, plan, idx, current, files, dirs,
                    Counters, Uninst >>
    /\ Fixed

\* Executor::add_uninstall_entry (Windows), then Ok(())
ExecAddUninstallEntry ==
    /\ pc = "x_uninstall_entry"
    /\ IF /\ family = "windows"
          /\ plan.interactive_uninstall_args # <<>>
          /\ IsSome(main_executable(plan.files))
       THEN /\ registry' = add_uninstall_entry(registry, plan.access_scope,
                               package.app_id,
                               Unwrap(main_executable(plan.files)).destination_path,
                               plan.interactive_uninstall_args, plan.manifest_path)
            /\ log' = Append(log, <<"add_uninstall_entry", package.app_id.uuid>>)
       ELSE UNCHANGED << registry, log >>
    /\ Finish("Ok")
    /\ UNCHANGED << op, plan, idx, current, files, dirs, Counters, Uninst >>
    /\ Fixed


\* ------------------------------------------------------------- uninst.rs

Inst == << plan, current >>

\* discover_manifest, were DiskManifestNotFound passed on as it is.
UDiscoverManifest_unmapped ==
    /\ pc = "u_discover"
    /\ IF IsSome(manual_manifest)
       THEN /\ manifest' = Unwrap(manual_manifest)
            /\ manual_manifest' = None
            /\ pc' = "u_verify"
            /\ log' = Append(log, <<"manifest", "provided">>)
            /\ UNCHANGED << result, caller >>
       ELSE LET r == discover_manifest(family, files, dirs, current_exe, app_id)
            IN  IF r.kind = "Ok"
                THEN /\ manifest' = r.manifest
                     /\ pc' = "u_verify"
                     /\ log' = Append(log, <<"manifest", "discovered">>)
                     /\ UNCHANGED << result, caller, manual_manifest >>
                ELSE /\ Finish(r.kind)
                     /\ log' = Append(log, <<"manifest", r.kind>>)
                     /\ UNCHANGED << manifest, manual_manifest >>
    /\ UNCHANGED << op, idx, app_id, Inst, Counters, Disk >>
    /\ Fixed

\* Uninstaller::discover_manifest: the manifest handed in, or lib.rs manifest()
UDiscoverManifest ==
    /\ pc \in {"u_discover", "gu_discover"}
    /\ IF IsSome(manual_manifest)
       THEN /\ manifest' = Unwrap(manual_manifest)
            /\ manual_manifest' = None
            /\ pc' = "u_verify"
            /\ log' = Append(log, <<"manifest", "provided">>)
            /\ UNCHANGED << result, caller >>
       ELSE LET r == discover_manifest(family, files, dirs, current_exe, app_id)
            IN  IF r.kind = "Ok"
                THEN /\ manifest' = r.manifest
                     /\ pc' = IF pc = "gu_discover" THEN "gu_intro" ELSE "u_verify"
                     /\ log' = Append(log, <<"manifest", "discovered">>)
                     /\ UNCHANGED << result, caller, manual_manifest >>
                ELSE /\ Finish(IF r.kind = "DiskManifestNotFound"
                               THEN "NotInstalled" ELSE r.kind)
                     /\ log' = Append(log, <<"manifest", r.kind>>)
                     /\ UNCHANGED << manifest, manual_manifest >>
    /\ UNCHANGED << op, idx, app_id, Inst, Counters, Disk >>
    /\ Fixed

\* verify_matching_manifest, were it to accept every manifest.
verify_matching_manifest_any(m, id) == "Ok"

\* Uninstaller::verify_matching_manifest
verify_matching_manifest(m, id) ==
    IF m.app_id.uuid # id.uuid THEN "MismatchedDiskManifest" ELSE "Ok"

UVerifyMatchingManifest ==
    /\ pc = "u_verify"
    /\ IF verify_matching_manifest(manifest, app_id) = "Ok"
       THEN pc' = "u_app_path" /\ UNCHANGED << result, caller >>
       ELSE Finish(verify_matching_manifest(manifest, app_id))
    /\ UNCHANGED << op, idx, log, Inst, Counters, Uninst, Disk >>
    /\ Fixed

\* Uninstaller::remove_app_path (Windows)
URemoveAppPath ==
    /\ pc = "u_app_path"
    /\ IF family = "windows" /\ IsSome(manifest.app_path_exe_name)
       THEN /\ registry' = remove_app_path(registry, manifest.access_scope,
                                           Unwrap(manifest.app_path_exe_name))
            /\ log' = Append(log, <<"remove_app_path", Unwrap(manifest.app_path_exe_name)>>)
       ELSE UNCHANGED << registry, log >>
    /\ pc' = "u_path_env"
    /\ UNCHANGED << op, result, caller, idx, files, dirs, Inst, Counters, Uninst >>
    /\ Fixed

\* Uninstaller::remove_path_env_var
URemovePathEnvVar ==
    /\ pc = "u_path_env"
    /\ LET next == IF Len(manifest.files) = 0 THEN "u_self" ELSE "u_files"
       IN
       IF family = "windows" /\ IsSome(manifest.search_path)
       THEN /\ registry' = win_remove_path_env_var(registry, manifest.access_scope,
                                                    Unwrap(manifest.search_path))
            /\ log' = Append(log, <<"remove_path", Unwrap(manifest.search_path)>>)
            /\ pc' = next
            /\ UNCHANGED << result, caller, files, dirs >>
       ELSE IF /\ family = "unix"
               /\ IsSome(manifest.search_path)
               /\ IsSome(manifest.shell_profile_path)
       THEN LET r == unix_remove_path_env_var(files, dirs, manifest.access_scope,
                                              Unwrap(manifest.search_path),
                                              Unwrap(manifest.shell_profile_path))
            IN  IF r.kind = "Ok"
                THEN /\ files' = r.files
                     /\ log' = Append(log, <<"remove_path",
                                             Unwrap(manifest.shell_profile_path)>>)
                     /\ pc' = next
                     /\ UNCHANGED << result, caller, dirs, registry >>
                ELSE Finish(r.kind) /\ UNCHANGED << log, Disk >>
       ELSE pc' = next /\ UNCHANGED << result, caller, log, Disk >>
    /\ idx' = 1
    /\ UNCHANGED << op, Inst, Counters, Uninst >>
    /\ Fixed

\* The guard of remove_files and remove_self: may the recorded file go?
\* Only the CRC32C of the checksum is compared.
is_unmodified(checksum, entry) == ~(checksum.crc32c # entry.crc32c)

\* Uninstaller::remove_files: one turn of the loop
URemoveFiles ==
    /\ pc = "u_files"
    /\ LET entry == manifest.files[idx]
           next  == IF idx = Len(manifest.files) THEN "u_self" ELSE "u_files"
       IN  IF entry.is_main_executable
           THEN /\ pc' = next /\ idx' = idx + 1
                /\ UNCHANGED << result, caller, log, files >>
           ELSE IF ~exists(files, dirs, entry.path)
           THEN /\ pc' = next /\ idx' = idx + 1
                /\ log' = Append(log, <<"missing", entry.path>>)
                /\ UNCHANGED << result, caller, files >>
           ELSE IF ~is_file(files, entry.path)
           THEN Finish("Io") /\ UNCHANGED << idx, log, files >>
           ELSE IF ~is_unmodified(file_checksum(files[entry.path]), entry)
           THEN /\ pc' = next /\ idx' = idx + 1
                /\ log' = Append(log, <<"modified", entry.path>>)
                /\ UNCHANGED << result, caller, files >>
           ELSE /\ files' = remove_file(files, entry.path)
                /\ pc' = next /\ idx' = idx + 1
                /\ log' = Append(log, <<"remove_file", entry.path>>)
                /\ UNCHANGED << result, caller >>
    /\ UNCHANGED << op, dirs, registry, Inst, Counters, Uninst >>
    /\ Fixed

\* Uninstaller::remove_self: the first entry flagged main executable
URemoveSelf ==
    /\ pc = "u_self"
    /\ LET found == main_executable(manifest.files)
           entry == Unwrap(found)
       IN  IF ~IsSome(found) \/ ~exists(files, dirs, entry.path)
           THEN pc' = "u_manifest_file" /\ UNCHANGED << result, caller, log, files >>
           ELSE IF ~is_file(files, entry.path)
           THEN Finish("Io") /\ UNCHANGED << log, files >>
           ELSE IF ~is_unmodified(file_checksum(files[entry.path]), entry)
           THEN /\ pc' = "u_manifest_file"
                /\ log' = Append(log, <<"modified", entry.path>>)
                /\ UNCHANGED << result, caller, files >>
           ELSE /\ files' = remove_file(files, entry.path)
                /\ pc' = "u_manifest_file"
                /\ log' = Append(log, <<"remove_file", entry.path>>)
                /\ UNCHANGED << result, caller >>
    /\ UNCHANGED << op, idx, dirs, registry, Inst, Counters, Uninst >>
    /\ Fixed

\* Uninstaller::remove_manifest_file
URemoveManifestFile ==
    /\ pc = "u_manifest_file"
    /\ IF ~is_file(files, manifest.manifest_path)
       THEN Finish("Io") /\ UNCHANGED << idx, log, files >>
       ELSE /\ files' = remove_file(files, manifest.manifest_path)
            /\ log' = Append(log, <<"remove_manifest", manifest.manifest_path>>)
            /\ pc' = IF Len(manifest.dirs) = 0 THEN "u_uninstall_entry" ELSE "u_dirs"
            /\ idx' = 1
            /\ UNCHANGED << result, caller >>
    /\ UNCHANGED << op, dirs, registry, Inst, Counters, Uninst >>
    /\ Fixed

\* Uninstaller::remove_dirs: one turn of the loop
URemoveDirs ==
    /\ pc = "u_dirs"
    /\ LET entry == manifest.dirs[idx]
           next  == IF idx = Len(manifest.dirs) THEN "u_uninstall_entry" ELSE "u_dirs"
       IN  IF entry.preserve \/ ~exists(files, dirs, entry.path)
           THEN /\ pc' = next /\ idx' = idx + 1
                /\ UNCHANGED << result, caller, log, dirs >>
           ELSE IF entry.path \notin dirs
           THEN Finish("Io") /\ UNCHANGED << idx, log, dirs >>
           ELSE IF dir_is_empty(files, dirs, entry.path)
           THEN /\ dirs' = dirs \ {entry.path}
                /\ pc' = next /\ idx' = idx + 1
                /\ log' = Append(log, <<"remove_dir", entry.path>>)
                /\ UNCHANGED << result, caller >>
           ELSE /\ pc' = next /\ idx' = idx + 1
                /\ log' = Append(log, <<"not_empty", entry.path>>)
                /\ UNCHANGED << result, caller, dirs >>
    /\ UNCHANGED << op, files, registry, Inst, Counters, Uninst >>
    /\ Fixed

\* Uninstaller::remove_uninstall_entry (Windows), then Ok(()): back in
\* Installer::run when it made the call
URemoveUninstallEntry ==
    /\ pc = "u_uninstall_entry"
    /\ IF family = "windows"
       THEN /\ registry' = remove_uninstall_entry(registry, manifest.access_scope,
                                                  manifest.app_id)
            /\ log' = Append(log, <<"remove_uninstall_entry", manifest.app_id.uuid>>)
       ELSE UNCHANGED << registry, log >>
    /\ IF caller = "install"
       THEN pc' = "x_check" /\ caller' = "none" /\ UNCHANGED result
       ELSE Finish("Ok")
    /\ UNCHANGED << op, idx, files, dirs, Inst, Counters, Uninst >>
    /\ Fixed

\* ------------------------------------------------- tui.rs: the guided prompts

\* The positions where a guided dialog waits for its button: installation_intro,
\* prompt_access_scope, prompt_modify_search_path, prompt_uninstall_existing,
\* prompt_install_confirm, uninstallation_intro.
GuidedPrompts ==
    {"g_intro", "g_scope", "g_search", "g_existing", "g_confirm", "gu_intro"}

\* What follows a prompt answered Next.
AfterPrompt(at) ==
    CASE at = "g_intro"    -> "g_scope"
      [] at = "g_scope"    -> IF family = "windows" \/ config.access_scope = "User"
                              THEN "g_search" ELSE "g_plan"
      [] at = "g_search"   -> "g_plan"
      [] at = "g_existing" -> "g_confirm"
      [] at = "g_confirm"  -> "i_uninstall"
      [] at = "gu_intro"   -> "u_verify"

\* GuidedDialogButton::Next(value).unwrap_button() is Ok(value)
GuidedNext ==
    /\ pc \in GuidedPrompts
    /\ pc' = AfterPrompt(pc)
    /\ UNCHANGED << op, result, caller, idx, log, Inst, Counters, Uninst, Disk >>
    /\ Fixed

\* The Exit button, were the install confirmation to be asked only after
\* the existing installation was uninstalled.
GuidedExit_late ==
    /\ pc \in GuidedPrompts \cup {"x_check"}
    /\ Finish("InterruptedByUser")
    /\ log' = Append(log, <<"exit", pc>>)
    /\ UNCHANGED << op, idx, Inst, Counters, Uninst, Disk >>
    /\ Fixed

\* GuidedDialogButton::Exit.unwrap_button() is Err(InterruptedByUser)
GuidedExit ==
    /\ pc \in GuidedPrompts
    /\ Finish("InterruptedByUser")
    /\ log' = Append(log, <<"exit", pc>>)
    /\ UNCHANGED << op, idx, Inst, Counters, Uninst, Disk >>
    /\ Fixed

\* ----------------------------------------------------------- other actors

\* The steps whose system calls can fail for reasons outside the model
\* (permissions, a full disk): the call returns the Io error.
IoSteps ==
    {"x_persist", "x_copy", "u_files", "u_self", "u_manifest_file", "u_dirs"}
    \cup (IF family = "windows"
          THEN {"x_path", "x_app_path", "x_uninstall_entry",
                "u_app_path", "u_path_env", "u_uninstall_entry"}
          ELSE {})

IoError ==
    /\ pc \in IoSteps
    /\ faultsLeft > 0
    /\ faultsLeft' = faultsLeft - 1
    /\ Finish("Io")
    /\ log' = Append(log, <<"io_error", pc>>)
    /\ UNCHANGED << op, idx, opsLeft, envLeft, before, prev, touched,
                    Inst, Uninst, Disk >>
    /\ Fixed

\* Another program or the user writes a file where the package installs one.
EnvWrite ==
    /\ pc = "idle"
    /\ opsLeft > 0
    /\ envLeft > 0
    /\ \E p \in DestPaths(family, package, config), b \in PayloadBytes :
        /\ p \notin dirs
        /\ files' = write_file(files, p, Bytes(b))
        /\ dirs' = create_dir_all(dirs, Parent(p))
    /\ envLeft' = envLeft - 1
    /\ touched' = TRUE
    /\ UNCHANGED << op, pc, caller, result, idx, registry, opsLeft, faultsLeft, log,
                    before, prev, Inst, Uninst >>
    /\ Fixed

\* Another program or the user deletes such a file.
EnvRemove ==
    /\ pc = "idle"
    /\ opsLeft > 0
    /\ envLeft > 0
    /\ \E p \in DestPaths(family, package, config) \cap DOMAIN files :
        files' = remove_file(files, p)
    /\ envLeft' = envLeft - 1
    /\ touched' = TRUE
    /\ UNCHANGED << op, pc, caller, result, idx, dirs, registry, opsLeft, faultsLeft,
                    log, before, prev, Inst, Uninst >>
    /\ Fixed

\* Somebody puts a copy of the application's manifest file next to the
\* running executable, where discovery looks first.
EnvCopyManifest ==
    /\ pc = "idle"
    /\ opsLeft > 0
    /\ envLeft > 0
    /\ \E scope \in Scopes :
        LET from == manifest_path(family, package.app_id, scope)
            to   == Join(Parent(current_exe), <<ManifestFileName(package.app_id)>>)
        IN  /\ is_file(files, from)
            /\ ~exists(files, dirs, to)
            /\ files' = write_file(files, to, files[from])
    /\ envLeft' = envLeft - 1
    /\ touched' = TRUE
    /\ UNCHANGED << op, pc, caller, result, idx, dirs, registry, opsLeft, faultsLeft,
                    log, before, prev, Inst, Uninst >>
    /\ Fixed

Next ==
    \/ InstallStart
    \/ InstallInteractiveStart
    \/ UninstallInteractiveStart
    \/ GuidedNext
    \/ GuidedExit
    \/ Verify
    \/ RunPlanner
    \/ RunUninstaller
    \/ ExecCheckExistingManifest
    \/ ExecPersistDiskManifest
    \/ ExecCopyFiles
    \/ ExecAddPathEnvVar
    \/ ExecAddAppPath
    \/ ExecAddUninstallEntry
    \/ UninstallStart
    \/ UDiscoverManifest
    \/ UVerifyMatchingManifest
    \/ URemoveAppPath
    \/ URemovePathEnvVar
    \/ URemoveFiles
    \/ URemoveSelf
    \/ URemoveManifestFile
    \/ URemoveDirs
    \/ URemoveUninstallEntry
    \/ IoError
    \/ EnvWrite
    \/ EnvRemove
    \/ EnvCopyManifest

Spec == Init /\ [][Next]_vars


\* ------------------------------------------------------------- properties

\* What the log of the running (or last) call holds.
Logged(kind) == \E i \in 1..Len(log) : log[i][1] = kind
LoggedAt(kind, path) == \E i \in 1..Len(log) : log[i] = <<kind, path>>

\* No system call of the running (or last) call failed for an outside reason.
NoFault == ~Logged("io_error")

\* The (len, crc32c) a manifest or plan entry records.
Recorded(entry) == [crc32c |-> entry.crc32c, len |-> entry.len]

\* A top-level call has returned, and nobody has touched the files since.
Returned(kind) == pc = "idle" /\ op = kind /\ ~touched

\* C1: while the executor persists the disk manifest and copies the files,
\* every file that exists before a step has the same content after it: an
\* existing destination is skipped or refused, never written.
C1_NoOverwrite ==
    [][ (pc \in {"x_persist", "x_copy"}) =>
            (\A p \in DOMAIN files : p \in DOMAIN files' /\ files'[p] = files[p]) ]_vars

\* C1 happens: a copy step met an existing file with another checksum and
\* the install returned UnknownFileInDestination with the file still there.
C1_Witness ==
    /\ Returned("install")
    /\ result = "UnknownFileInDestination"
    /\ \E i \in 1..Len(log) :
        /\ log[i][1] = "refused"
        /\ log[i][2] \in DOMAIN files
        /\ \E j \in 1..Len(plan.files) :
            /\ plan.files[j].destination_path = log[i][2]
            /\ file_checksum(files[log[i][2]]) # Recorded(plan.files[j])

\* C2: during uninstall a recorded file (payload or main executable) is
\* deleted only if both its length and its CRC32C equal the record.
C2_DeleteOnlyIfLenAndCrcMatch ==
    [][ (pc \in {"u_files", "u_self"}) =>
            (\A i \in 1..Len(manifest.files) :
                LET e == manifest.files[i]
                IN  (e.path \in DOMAIN files /\ e.path \notin DOMAIN files')
                        => file_checksum(files[e.path]) = Recorded(e)) ]_vars

\* C3: a successful install, then a successful uninstall of the same id, with
\* nobody else touching the files: (a) the manifest file is gone, (b) every
\* recorded file, every main-executable entry included, is gone, (d) every
\* directory that existed before the install is still there.
C3_InstallUninstallRoundTrip ==
    ( /\ Returned("uninstall")
      /\ result = "Ok"
      /\ app_id = package.app_id
      /\ prev.op = "install"
      /\ prev.result = "Ok"
      /\ ~prev.touched )
    => /\ manifest.manifest_path \notin DOMAIN files
       /\ manifest_path(family, app_id, config.access_scope) \notin DOMAIN files
       /\ \A i \in 1..Len(manifest.files) : manifest.files[i].path \notin DOMAIN files
       /\ prev.before.dirs \subseteq dirs


C5_RefusedInstallLeavesNoManifest ==
    (Returned("install") /\ result = "UnknownFileInDestination")
    => plan.manifest_path \notin DOMAIN files

\* C5: the executor writes the manifest before it copies the first file and
\* takes nothing back: an install that fails with UnknownFileInDestination
\* leaves the manifest it wrote, as populated from the plan, at the manifest
\* path.
C5_RefusedInstallLeavesManifest ==
    (Returned("install") /\ result = "UnknownFileInDestination")
    => /\ \E i \in 1..Len(log) : log[i] = <<"persist", "copy", plan.manifest_path>>
       /\ plan.manifest_path \in DOMAIN files
       /\ files[plan.manifest_path]
            = to_writer(populate_disk_manifest(package.app_id, plan))

\* C5 happens: no manifest when the install began, a refused copy, and the
\* manifest is there when it returns.
C5_Witness ==
    /\ Returned("install")
    /\ result = "UnknownFileInDestination"
    /\ plan.manifest_path \notin DOMAIN before.files
    /\ plan.manifest_path \in DOMAIN files

\* C6: when install returns UnknownFileInDestination no registration has
\* been added (no Path part, no shell-profile change, no App Paths entry, no
\* uninstall entry) and the refused destination file is as it was.
C6_RefusedBeforeRegistration ==
    (Returned("install") /\ result = "UnknownFileInDestination")
    => /\ ~Logged("add_path") /\ ~Logged("add_app_path")
       /\ ~Logged("add_uninstall_entry")
       /\ \A s \in Scopes :
            SeqToSet(registry.path[s]) \subseteq SeqToSet(before.registry.path[s])
       /\ registry.app_paths \subseteq before.registry.app_paths
       /\ registry.uninstall \subseteq before.registry.uninstall
       /\ \A p \in DOMAIN files :
            files[p].kind = "text" => p \in DOMAIN before.files /\ before.files[p] = files[p]
       /\ \A i \in 1..Len(log) :
            log[i][1] = "refused"
                => /\ log[i][2] \in DOMAIN before.files
                   /\ log[i][2] \in DOMAIN files
                   /\ files[log[i][2]] = before.files[log[i][2]]

\* C6 happens: the refused install was planned with a search-path and an
\* App Paths registration to make.
C6_Witness ==
    /\ Returned("install")
    /\ result = "UnknownFileInDestination"
    /\ family = "windows"
    /\ IsSome(plan.search_path)
    /\ IsSome(plan.app_path)
    /\ Logged("refused")

\* The three places discover_manifest looks in, for an id.
ManifestCandidates(id) ==
    { Join(Parent(current_exe), <<ManifestFileName(id)>>),
      manifest_path(family, id, "User"),
      manifest_path(family, id, "System") }

\* C7: uninstall(app_id) with no manifest handed in and none at any place
\* discovery looks in returns NotInstalled and changes no file, directory,
\* profile or registry entry.
C7_NotInstalledNoMutation ==
    ( /\ Returned("uninstall")
      /\ ~LoggedAt("manifest", "provided")
      /\ ManifestCandidates(app_id) \cap DOMAIN before.files = {} )
    => /\ result = "NotInstalled"
       /\ files = before.files
       /\ dirs = before.dirs
       /\ registry = before.registry

\* C7 happens: a second uninstall right after a successful one.
C7_Witness ==
    /\ Returned("uninstall")
    /\ result = "NotInstalled"
    /\ prev.op = "uninstall"
    /\ prev.result = "Ok"
    /\ ~prev.touched

\* C8: when the manifest the uninstaller holds has another UUID than the app
\* id it was given, uninstall returns MismatchedDiskManifest and no file,
\* directory, profile or registry entry has changed.
C8_MismatchNoMutation ==
    ( /\ Returned("uninstall")
      /\ "app_id" \in DOMAIN manifest
      /\ manifest.app_id.uuid # app_id.uuid )
    => /\ result = "MismatchedDiskManifest"
       /\ files = before.files
       /\ dirs = before.dirs
       /\ registry = before.registry

\* C8 happens: a manifest of another app was handed in while an installation
\* with files and a manifest was on disk.
C8_Witness ==
    /\ Returned("uninstall")
    /\ result = "MismatchedDiskManifest"
    /\ LoggedAt("manifest", "provided")
    /\ manifest.manifest_path \in DOMAIN files
    /\ \E i \in 1..Len(manifest.files) : manifest.files[i].path \in DOMAIN files


\* The payload entries of the manifest whose file, when the call began, was
\* there with another (len, crc32c) than recorded.
ModifiedPayload ==
    { i \in 1..Len(manifest.files) :
        /\ ~manifest.files[i].is_main_executable
        /\ manifest.files[i].path \in DOMAIN before.files
        /\ file_checksum(before.files[manifest.files[i].path])
                # Recorded(manifest.files[i]) }

\* C9: after a successful install a payload file is modified so that its
\* checksum differs from the record; uninstall, no system call failing,
\* returns Ok, leaves every modified file as it is, and removes the
\* unmodified main executable and the manifest file.
C9_ModifiedPayloadLeftInPlace ==
    ( /\ Returned("uninstall")
      /\ LoggedAt("manifest", "discovered")
      /\ NoFault
      /\ prev.op = "install"
      /\ prev.result = "Ok"
      /\ ModifiedPayload # {} )
    => /\ result = "Ok"
       /\ \A i \in ModifiedPayload :
            /\ manifest.files[i].path \in DOMAIN files
            /\ files[manifest.files[i].path] = before.files[manifest.files[i].path]
       /\ \A i \in 1..Len(manifest.files) :
            ( /\ manifest.files[i].is_main_executable
              /\ manifest.files[i].path \in DOMAIN before.files
              /\ file_checksum(before.files[manifest.files[i].path])
                    = Recorded(manifest.files[i]) )
            => manifest.files[i].path \notin DOMAIN files
       /\ manifest.manifest_path \notin DOMAIN files

\* Every search-path step of the plan is one the family implements.
SearchPathSupported ==
    ~(family = "unix" /\ plan.access_scope = "System" /\ IsSome(plan.search_path))

\* C10: a destination that already holds a file with the source's
\* (len, crc32c) is skipped: the copy step writes nothing and goes on to the
\* next entry; and an install that skipped a file and met no refused copy and
\* no failing system call returns Ok.
C10_MatchingDestinationSkipped ==
    /\ [][ ( /\ pc = "x_copy"
             /\ faultsLeft' = faultsLeft
             /\ is_file(files, plan.files[idx].destination_path)
             /\ file_checksum(files[plan.files[idx].destination_path])
                    = Recorded(plan.files[idx]) )
           => ( /\ files' = files
                /\ dirs' = dirs
                /\ result' = result
                /\ idx' = idx + 1
                /\ pc' = IF idx = Len(plan.files) THEN "x_path" ELSE "x_copy"
                /\ log'[Len(log) + 1] = <<"skip", plan.files[idx].destination_path>> )
       ]_vars
    /\ []( ( /\ Returned("install")
             /\ Logged("skip")
             /\ ~Logged("refused")
             /\ NoFault
             /\ SearchPathSupported )
           => result = "Ok" )

\* C10 happens: an install returned Ok having skipped a file that was there
\* when the call began.
C10_Witness ==
    /\ Returned("install")
    /\ result = "Ok"
    /\ \E i \in 1..Len(log) :
        /\ log[i][1] = "skip"
        /\ log[i][2] \in DOMAIN before.files
        /\ log[i][2] \in DOMAIN files


\* C11: install of a package with no entry flagged main executable returns
\* InvalidPackageManifest, and nothing has happened by then: no step is
\* logged, and files, directories and registry are as they were.
C11_NoMainExecutableRejected ==
    ( /\ Returned("install")
      /\ \A i \in 1..Len(package.files) : ~package.files[i].is_main_executable )
    => /\ result = "InvalidPackageManifest"
       /\ log = <<>>
       /\ files = before.files
       /\ dirs = before.dirs
       /\ registry = before.registry

\* C11 happens: a package with a file entry but no main executable was
\* handed to install, its source file readable.
C11_Witness ==
    /\ Returned("install")
    /\ package.files # <<>>
    /\ \A i \in 1..Len(package.files) :
        /\ ~package.files[i].is_main_executable
        /\ is_file(files, Join(config.source_dir, package.files[i].package_path))
    /\ result = "InvalidPackageManifest"

\* C12: every disk manifest the executor has written holds exactly one file
\* entry flagged main executable, so a package with no or with several
\* main-executable entries never becomes a manifest file. (No manifest file
\* exists before the first install; every one on disk was written by install.)
C12_PersistedManifestHasOneMain ==
    \A p \in DOMAIN files :
        files[p].kind = "ron"
        => Cardinality({ i \in 1..Len(files[p].doc.files) :
                            files[p].doc.files[i].is_main_executable }) = 1

\* Where the directory_install tests expect executables and data to land.
ExpectedBinDir ==
    IF config.destination.kind \in {"SingleDir", "CustomUnix"}
    THEN Join(config.destination.path, <<"bin">>)
    ELSE bin_dir(resolve_prefix(family, package.app_id.plain_id, config.destination))

ExpectedDataDir ==
    CASE config.destination.kind = "SingleDir" -> config.destination.path
      [] config.destination.kind = "CustomUnix" ->
            Join(config.destination.path, <<"share", AsStr(package.app_id.plain_id)>>)
      [] OTHER ->
            data_dir(package.app_id.plain_id,
                     resolve_prefix(family, package.app_id.plain_id, config.destination))

\* manifest(app_id) finds the manifest file at the User manifest path, its
\* main executable is at bin_dir/<target name>, and every package file is
\* recorded and exists at bin_dir (Executable) or data_dir (Data) joined with
\* its target path.
FoundAsInstalled ==
       LET found == discover_manifest(family, files, dirs, current_exe, package.app_id)
           at    == manifest_path(family, package.app_id, "User")
       IN  /\ is_file(files, at)
           /\ found.kind = "Ok"
           /\ found.manifest.manifest_path = at
           /\ found.manifest.app_id = package.app_id
           /\ Unwrap(main_executable(found.manifest.files)).path
                = Join(ExpectedBinDir,
                       Unwrap(main_executable(package.files)).target_path)
           /\ Len(found.manifest.files) = Len(package.files)
           /\ \A i \in 1..Len(package.files) :
                LET dest == Join(IF package.files[i].file_type = "Executable"
                                 THEN ExpectedBinDir ELSE ExpectedDataDir,
                                 package.files[i].target_path)
                IN  /\ found.manifest.files[i].path = dest
                    /\ is_file(files, dest)

\* The place beside the running executable where discovery looks first.
SiblingManifestPath(id) == Join(Parent(current_exe), <<ManifestFileName(id)>>)

C14_ProfileSnippetRemoved ==
    ( /\ Returned("uninstall")
      /\ result = "Ok"
      /\ family = "unix"
      /\ app_id = package.app_id
      /\ prev.op = "install"
      /\ prev.result = "Ok"
      /\ ~prev.touched
      /\ IsSome(manifest.search_path) )
    => /\ IsSome(manifest.shell_profile_path)
       /\ \A p \in DOMAIN files :
            files[p].kind = "text"
            => ~ContainsSeq(files[p].text,
                            Snippet(path_to_shell_script_path(
                                        Unwrap(manifest.search_path), HOME)))

\* The places discovery looks in, in the order stated.
DiscoveryOrder(id) ==
    << SiblingManifestPath(id),
       manifest_path(family, id, "User"),
       manifest_path(family, id, "System") >>

\* A discovering uninstall took the manifest from the first place of the
\* order that existed when it was called.
FirstExistingDiscovered ==
    ( /\ op = "uninstall"
      /\ Logged("manifest")
      /\ ~LoggedAt("manifest", "provided") )
    => LET order == DiscoveryOrder(app_id)
           there == { i \in 1..3 : exists(before.files, before.dirs, order[i]) }
       IN  there # {}
           => /\ LoggedAt("manifest", "discovered")
              /\ manifest.manifest_path
                    = order[CHOOSE i \in there : \A j \in there : i <= j]

\* With a User and a System installation and nothing beside the executable,
\* a successful discovering uninstall took the User installation away and
\* left the System manifest, its files and its registry entries as they were.
OnlyUserInstallationRemoved ==
    LET user   == manifest_path(family, app_id, "User")
        system == manifest_path(family, app_id, "System")
    IN  ( /\ Returned("uninstall")
          /\ result = "Ok"
          /\ LoggedAt("manifest", "discovered")
          /\ ~exists(before.files, before.dirs, SiblingManifestPath(app_id))
          /\ is_file(before.files, user)
          /\ is_file(before.files, system) )
        => /\ manifest.manifest_path = user
           /\ ~is_file(files, user)
           /\ is_file(files, system)
           /\ files[system] = before.files[system]
           /\ \A i \in 1..Len(before.files[system].doc.files) :
                LET p == before.files[system].doc.files[i].path
                IN  p \in DOMAIN before.files
                    => p \in DOMAIN files /\ files[p] = before.files[p]
           /\ { e \in registry.uninstall : e.scope = "System" }
                = { e \in before.registry.uninstall : e.scope = "System" }
           /\ registry.path["System"] = before.registry.path["System"]

\* C15: discovery returns the first of sibling, User and System location
\* that exists; and with both a User and a System installation of the app
\* id, uninstall(app_id) removes only the User installation and leaves the
\* System manifest and the System installation's files unchanged.
C15_DiscoveryOrderUserBeforeSystem ==
    /\ FirstExistingDiscovered
    /\ OnlyUserInstallationRemoved

\* The positions of Executor::run.
ExecutorSteps ==
    {"x_check", "x_persist", "x_copy", "x_path", "x_app_path", "x_uninstall_entry"}

\* C16: in every executor run, a step that writes a file other than the
\* manifest (a payload file, the shell profile) or changes the registry (Path,
\* App Paths, uninstall entry) finds the manifest file already written at the
\* manifest path; and an install that returned without having persisted the
\* manifest (the existing-manifest check or the persist step failed) copied
\* no file, added no file and added no registration.
C16_ManifestPersistedFirst ==
    /\ [][ ( /\ pc \in ExecutorSteps
             /\ \/ registry' # registry
                \/ \E p \in DOMAIN files' \ {plan.manifest_path} :
                        p \notin DOMAIN files \/ files'[p] # files[p] )
           => ( /\ is_file(files, plan.manifest_path)
                /\ Logged("persist") ) ]_vars
    /\ []( ( /\ op = "install"
             /\ pc = "idle"
             /\ ~touched
             /\ ~Logged("persist") )
           => /\ ~Logged("copy") /\ ~Logged("add_path")
              /\ ~Logged("add_app_path") /\ ~Logged("add_uninstall_entry")
              /\ \A p \in DOMAIN files :
                    p \in DOMAIN before.files /\ files[p] = before.files[p]
              /\ registry.app_paths \subseteq before.registry.app_paths
              /\ registry.uninstall \subseteq before.registry.uninstall
              /\ \A s \in Scopes : SeqToSet(registry.path[s])
                                    \subseteq SeqToSet(before.registry.path[s]) )

\* C16 happens: an install wrote the manifest, then copied a file and, on
\* Windows, registered the uninstall entry, and returned Ok.
C16_Witness ==
    /\ Returned("install")
    /\ result = "Ok"
    /\ \E i, j, k \in 1..Len(log) :
        /\ i < j /\ j < k
        /\ log[i][1] = "persist"
        /\ log[j][1] = "copy"
        /\ log[k][1] = "add_uninstall_entry"

\* Where install under the submitted config writes its manifest.
ConfigManifestPath == manifest_path(family, package.app_id, config.access_scope)

\* The call before was an install that found no manifest, and failed.
FailedInstall(h) ==
    /\ h.op = "install"
    /\ h.result \notin {"Ok", "none"}
    /\ ~h.touched
    /\ ConfigManifestPath \notin DOMAIN h.before.files

\* A failed install left its manifest, and the uninstall that followed,
\* meeting no failing system call, returned Ok using that manifest, removed
\* the manifest file and every recorded file that the install had copied and
\* that still had its recorded checksum.
CleanedUpAfterFailure ==
    /\ ( /\ Returned("install")
         /\ result \notin {"Ok", "none"}
         /\ Logged("persist") )
       => /\ is_file(files, plan.manifest_path)
          /\ plan.manifest_path = ConfigManifestPath
          /\ files[plan.manifest_path]
                = to_writer(populate_disk_manifest(package.app_id, plan))
    /\ ( /\ Returned("uninstall")
         /\ app_id = package.app_id
         /\ LoggedAt("manifest", "discovered")
         /\ FailedInstall(prev)
         /\ is_file(before.files, ConfigManifestPath)
         /\ NoFault )
       => /\ result = "Ok"
          /\ manifest.manifest_path = ConfigManifestPath
          /\ ~is_file(files, ConfigManifestPath)
          /\ \A i \in 1..Len(manifest.files) :
                LET p == manifest.files[i].path
                IN  ( /\ ~is_file(prev.before.files, p)
                      /\ is_file(before.files, p)
                      /\ file_checksum(before.files[p]) = Recorded(manifest.files[i]) )
                    => ~is_file(files, p)

\* C17 as stated: an install that fails after the manifest was persisted
\* leaves the manifest at the manifest path, and a following uninstall(app_id)
\* succeeds using it: it removes the copied files, tolerates the recorded
\* files never copied, and removes the manifest file.
C17_UninstallAfterFailedInstall == CleanedUpAfterFailure

\* The log entries of the mutating phases of install and uninstall.
MutatingSteps ==
    {"persist", "copy", "add_path", "add_app_path", "add_uninstall_entry",
     "remove_path", "remove_app_path", "remove_file", "remove_manifest",
     "remove_dir", "remove_uninstall_entry"}

\* C18: Exit is answered at a guided prompt only, the call then returns
\* InterruptedByUser, and a call that returned InterruptedByUser has begun no
\* mutating phase: files (manifests, payload, profile), directories and
\* registry are as they were when it was called, and no uninstall, persist,
\* copy, delete or registration step is logged.
C18_ExitBeforeMutation ==
    /\ [][ (Logged("exit")' /\ ~Logged("exit"))
            => ( /\ pc \in GuidedPrompts
                 /\ pc' = "idle"
                 /\ result' = "InterruptedByUser" ) ]_vars
    /\ []( ( /\ pc = "idle"
             /\ ~touched
             /\ (result = "InterruptedByUser" \/ Logged("exit")) )
           => /\ result = "InterruptedByUser"
              /\ log[Len(log)][1] = "exit"
              /\ files = before.files
              /\ dirs = before.dirs
              /\ registry = before.registry
              /\ \A i \in 1..Len(log) : log[i][1] \notin MutatingSteps )

\* C18 happens: with an installation of the application on disk, the user
\* answered Exit when the interactive installer asked whether to uninstall it.
C18_Witness ==
    /\ Returned("install")
    /\ result = "InterruptedByUser"
    /\ LoggedAt("exit", "g_existing")
    /\ is_file(files, plan.manifest_path)

\* C19: the manifest file is removed last: once the uninstaller has deleted
\* it, no later step of that run removes a directory or a registry entry or
\* can fail; and an uninstall that returns an error leaves the manifest it
\* worked from on disk.
C19_ManifestRemovedLast ==
    /\ \A i, j \in 1..Len(log) :
            (i < j /\ log[i][1] = "remove_manifest")
            => log[j][1] \notin {"remove_dir", "remove_uninstall_entry", "io_error"}
    /\ ( /\ pc = "idle"
         /\ op = "uninstall"
         /\ ~touched
         /\ result \notin {"Ok", "none"}
         /\ manifest # NoManifest
         /\ is_file(before.files, manifest.manifest_path) )
       => is_file(files, manifest.manifest_path)

\* ------------------------------------- inst/package.rs: building a package

\* The most file entries a package is given while it is built.
MaxEntries == 2

\* A path as the host program writes it: an optional Windows prefix ("C:"),
\* an optional root ("/"), and the segments between the separators.
RawPath(prefix, root, segs) == [prefix |-> prefix, root |-> root, segs |-> segs]

\* "a", "a/b", "../a", "a/..", "./a", "a/.", "", "/a", "C:/a", "C:a"
RawPaths ==
    { RawPath(FALSE, FALSE, s) :
        s \in { <<"a">>, <<"a", "b">>, <<"..", "a">>, <<"a", "..">>,
                <<".", "a">>, <<"a", ".">>, <<>> } }
    \cup { RawPath(FALSE, TRUE, <<"a">>),
           RawPath(TRUE, TRUE, <<"a">>),
           RawPath(TRUE, FALSE, <<"a">>) }

\* std::path::Path::components: Prefix, RootDir, then the segments; a "." is
\* CurDir only where it leads a relative path and is dropped elsewhere.
components(path) ==
    LET lead == (IF path.prefix THEN << [kind |-> "Prefix"] >> ELSE <<>>)
                \o (IF path.root THEN << [kind |-> "RootDir"] >> ELSE <<>>)
        kept == SelectSeq([i \in 1..Len(path.segs) |-> [i |-> i, s |-> path.segs[i]]],
                          LAMBDA e : ~(e.s = "." /\ (e.i > 1 \/ lead # <<>>)))
    IN  lead \o [k \in 1..Len(kept) |->
                    CASE kept[k].s = "."  -> [kind |-> "CurDir"]
                      [] kept[k].s = ".." -> [kind |-> "ParentDir"]
                      [] OTHER -> [kind |-> "Normal", name |-> kept[k].s]]

\* validate_path, were a parent-directory component let through.
validate_path_parent_allowed(path) ==
    \A i \in 1..Len(components(path)) :
        components(path)[i].kind \in {"Normal", "ParentDir"}

\* PackageFileEntry::validate_path: Component::Normal(_) => continue,
\* _ => return Err(PackagePathError::new(path))
validate_path(path) ==
    \A i \in 1..Len(components(path)) : components(path)[i].kind = "Normal"

\* PackageFileEntry::new_impl; From<PackagePathError> for InstallerError
\* gives the kind InvalidPackageManifest
new_impl(package_path, target_path, file_type, is_main_executable) ==
    IF ~validate_path(package_path) THEN [kind |-> "InvalidPackageManifest"]
    ELSE IF ~validate_path(target_path) THEN [kind |-> "InvalidPackageManifest"]
    ELSE [kind |-> "Ok",
          entry |-> FileEntry(package_path, target_path, file_type, is_main_executable)]

\* self.files.push(entry?): the entry is pushed, or the error returned. log
\* keeps the arguments of the call and idx the number of entries before it.
Push(made, package_path, target_path) ==
    /\ Len(package.files) < MaxEntries
    /\ pc = "building"
    /\ idx' = Len(package.files)
    /\ log' = << <<"new", package_path, target_path>> >>
    /\ result' = made.kind
    /\ package' = IF made.kind = "Ok"
                  THEN [package EXCEPT !.files = Append(@, made.entry)]
                  ELSE package
    /\ UNCHANGED << family, config, files, dirs, registry, op, pc, caller, plan,
                    current, app_id, manifest, manual_manifest, opsLeft, envLeft,
                    faultsLeft, before, prev, touched >>

\* PackageManifest::with_self_exe
with_self_exe ==
    LET name == RawPath(FALSE, FALSE, <<current_exe_name>>)
    IN  Push(new_impl(name, name, "Executable", TRUE), name, name)

\* PackageManifest::with_self_exe_renamed
with_self_exe_renamed ==
    \E exe_name \in RawPaths :
        LET name == RawPath(FALSE, FALSE, <<current_exe_name>>)
        IN  Push(new_impl(name, exe_name, "Executable", TRUE), name, exe_name)

\* PackageManifest::with_file_entry
with_file_entry ==
    \E package_path \in RawPaths, file_type \in FileTypes :
        Push(new_impl(package_path, package_path, file_type, FALSE),
             package_path, package_path)

\* PackageManifest::with_file_entry_renamed
with_file_entry_renamed ==
    \E package_path \in RawPaths, target_path \in RawPaths,
       file_type \in FileTypes :
        Push(new_impl(package_path, target_path, file_type, FALSE),
             package_path, target_path)

\* A relative path as the sequence of the names of its components, ".." for
\* a parent-directory component.
component_names(path) ==
    [k \in 1..Len(components(path)) |->
        CASE components(path)[k].kind = "Normal"    -> components(path)[k].name
          [] components(path)[k].kind = "ParentDir" -> ".."
          [] OTHER -> "."]

\* Installer::run_planner on the package built so far: Planner::run joins the
\* source directory and the destination directories with the entries' paths.
PlanPackage ==
    /\ pc = "building"
    /\ pc' = "planned"
    /\ LET pkg == [package EXCEPT !.files =
                    [i \in 1..Len(package.files) |->
                        [package.files[i] EXCEPT
                            !.package_path = component_names(@),
                            !.target_path  = component_names(@)]]]
           r == planner_run(family, pkg, config, files, dirs)
       IN  /\ result' = r.kind
           /\ plan' = IF r.kind = "Ok" THEN r.plan ELSE NoPlan
    /\ log' = <<>>
    /\ UNCHANGED << family, package, config, files, dirs, registry, op, caller, idx,
                    current, app_id, manifest, manual_manifest, opsLeft, envLeft,
                    faultsLeft, before, prev, touched >>

\* PackageManifest::new(app_id): no file entry yet; nothing is installed. The
\* source directory holds the executable, d.bin and a third file, a.
InitPackage ==
    /\ family \in Families
    /\ package = PackageManifest(AppA, <<>>)
    /\ config = InstallConfig("User", PrefixUser, TRUE)
    /\ files = write_file(BaseFiles(family), Join(current_exe_dir, <<"a">>),
                          Bytes(DataBytes))
    /\ dirs = BaseDirs(family)
    /\ registry = [ path |-> [s \in Scopes |-> << <<"C:", "Windows">> >>],
                    app_paths |-> {}, uninstall |-> {} ]
    /\ op = "none"
    /\ pc = "building"
    /\ caller = "none"
    /\ result = "none"
    /\ plan = NoPlan
    /\ idx = 0
    /\ current = 0
    /\ app_id = AppA
    /\ manifest = NoManifest
    /\ manual_manifest = None
    /\ opsLeft = MaxOps
    /\ envLeft = MaxEnvOps
    /\ faultsLeft = MaxFaults
    /\ log = <<>>
    /\ before = [files |-> files, dirs |-> dirs, registry |-> registry]
    /\ prev = [op |-> "none", result |-> "none", touched |-> FALSE,
               before |-> [files |-> files, dirs |-> dirs, registry |-> registry]]
    /\ touched = FALSE

NextPackage ==
    \/ with_self_exe
    \/ with_self_exe_renamed
    \/ with_file_entry
    \/ with_file_entry_renamed
    \/ PlanPackage

\* The host program building a package manifest.
SpecPackage == InitPackage /\ [][NextPackage]_vars

\* A path written with a "..", a root or a prefix.
Forbidden(path) ==
    path.prefix \/ path.root \/ \E i \in 1..Len(path.segs) : path.segs[i] = ".."

\* A path written with plain names only, "." allowed where components() drops it.
PlainNames(path) ==
    /\ ~path.prefix
    /\ ~path.root
    /\ \A i \in 1..Len(path.segs) :
        /\ path.segs[i] # ".."
        /\ (i = 1 => path.segs[i] # ".")

\* C20: a file entry is made and added only if the package path and the
\* target path both consist of normal components only; with a "..", a root or
\* a prefix in either path the call returns InvalidPackageManifest and the
\* package has the entries it had.
C20_OnlyNormalComponents ==
    log # <<>>
    => LET package_path == log[1][2]
           target_path  == log[1][3]
       IN  /\ result \in {"Ok", "InvalidPackageManifest"}
           /\ result = "Ok"
                => /\ PlainNames(package_path) /\ PlainNames(target_path)
                   /\ Len(package.files) = idx + 1
                   /\ package.files[idx + 1].package_path = package_path
                   /\ package.files[idx + 1].target_path = target_path
           /\ (Forbidden(package_path) \/ Forbidden(target_path))
                => /\ result = "InvalidPackageManifest"
                   /\ Len(package.files) = idx

\* C20 happens: a package that has an entry is given another one whose
\* package path is plain and whose target path holds a "..": the call fails
\* and the package keeps its one entry.
C20_Witness ==
    /\ log # <<>>
    /\ PlainNames(log[1][2])
    /\ \E i \in 1..Len(log[1][3].segs) : log[1][3].segs[i] = ".."
    /\ result = "InvalidPackageManifest"
    /\ idx = 1
    /\ Len(package.files) = 1

\* ------------------------------------------------- building an application id

\* Bounds on the argument the host program writes for AppId::new: up to
\* MaxTyped single characters, then up to MaxRuns runs of RunLen letters.
MaxTyped == 5
MaxRuns  == 3
RunLen   == 32

\* The characters the host program writes ids with.
IdChars == {"a", "B", "1", "-", "_", ".", EAcute}

Run == [i \in 1..RunLen |-> "a"]

\* The state before the host program has written anything. log holds the
\* argument's characters, idx the number of runs appended to it.
InitId ==
    /\ family \in Families
    /\ package = PackageManifest(AppA, <<>>)
    /\ config = InstallConfig("User", PrefixUser, TRUE)
    /\ files = BaseFiles(family)
    /\ dirs = BaseDirs(family)
    /\ registry = [ path |-> [s \in Scopes |-> << <<"C:", "Windows">> >>],
                    app_paths |-> {}, uninstall |-> {} ]
    /\ op = "none"
    /\ pc = "typing"
    /\ caller = "none"
    /\ result = "none"
    /\ plan = NoPlan
    /\ idx = 0
    /\ current = 0
    /\ app_id = None
    /\ manifest = NoManifest
    /\ manual_manifest = None
    /\ opsLeft = MaxOps
    /\ envLeft = MaxEnvOps
    /\ faultsLeft = MaxFaults
    /\ log = <<>>
    /\ before = [files |-> files, dirs |-> dirs, registry |-> registry]
    /\ prev = [op |-> "none", result |-> "none", touched |-> FALSE,
               before |-> [files |-> files, dirs |-> dirs, registry |-> registry]]
    /\ touched = FALSE

\* The host program writes one more character of the argument.
IdType ==
    /\ pc = "typing"
    /\ idx = 0
    /\ Len(log) < MaxTyped
    /\ \E c \in IdChars : log' = Append(log, c)
    /\ UNCHANGED << family, package, config, files, dirs, registry, op, pc, caller,
                    result, plan, idx, current, app_id, manifest, manual_manifest,
                    opsLeft, envLeft, faultsLeft, before, prev, touched >>

\* The host program writes a run of letters.
IdTypeRun ==
    /\ pc = "typing"
    /\ idx < MaxRuns
    /\ log' = log \o Run
    /\ idx' = idx + 1
    /\ UNCHANGED << family, package, config, files, dirs, registry, op, pc, caller,
                    result, plan, current, app_id, manifest, manual_manifest,
                    opsLeft, envLeft, faultsLeft, before, prev, touched >>

\* AppId::new(log): the validation's error, or Ok with the new AppId.
AppIdNewCall ==
    /\ pc = "typing"
    /\ pc' = "made"
    /\ result' = validate_namespaced_id(log)
    /\ app_id' = IF result' = "Ok" THEN Some(AppIdNew(log)) ELSE None
    /\ UNCHANGED << family, package, config, files, dirs, registry, op, caller,
                    plan, idx, current, manifest, manual_manifest,
                    opsLeft, envLeft, faultsLeft, log, before, prev, touched >>

NextId ==
    \/ IdType
    \/ IdTypeRun
    \/ AppIdNewCall

\* The host program making an application id.
SpecId == InitId /\ [][NextId]_vars

\* The segments of s as the text between its dots: a segment starts at the
\* first character and after every dot.
SegmentStarts(s) == { i \in 1..(Len(s) + 1) : i = 1 \/ s[i - 1] = "." }

SegmentEnd(s, i) ==
    IF \E e \in i..Len(s) : s[e] = "."
    THEN (CHOOSE e \in i..Len(s) : s[e] = "." /\ \A j \in i..(e - 1) : s[j] # ".") - 1
    ELSE Len(s)

\* The format rules: two segments or more, each of two characters or more,
\* starting with an ASCII letter and made of ASCII alphanumerics, '-' and '_',
\* and no more than 100 characters in all.
WellFormedId(s) ==
    /\ Cardinality(SegmentStarts(s)) >= 2
    /\ \A i \in SegmentStarts(s) :
        /\ SegmentEnd(s, i) - i + 1 >= 2
        /\ s[i] \in AsciiLetters
        /\ \A j \in i..SegmentEnd(s, i) :
            s[j] \in AsciiLetters \cup AsciiDigits \cup {"-", "_"}
    /\ Len(s) <= 100

\* C21: AppId::new's validation accepts a string exactly when it splits on
\* '.' into at least two segments, every segment has at least two characters,
\* starts with an ASCII letter and holds only ASCII alphanumerics, '-' and
\* '_', and the string is at most 100 long.
C21_ValidateAcceptsExactlyWellFormed ==
    pc = "made" => ((result = "Ok") <=> WellFormedId(log))

\* An id of exactly 100 characters is accepted.
C21_Witness ==
    pc = "made" /\ result = "Ok" /\ Len(log) = 100 /\ WellFormedId(log)

\* --------------------------------------------- two spellings of an id

\* The ids the host program may write for the package and for the
\* uninstaller: two segments of a letter and one more character.
IdSpellings ==
    { <<c1, c2, ".", c3, c4>> :
        c1 \in {"a", "A", "b"}, c2 \in {"-", "_", "b", "B"},
        c3 \in {"a", "A", "b"}, c4 \in {"-", "_", "b", "B"} }

\* The host program has written two ids, log[1] and log[2], and has made
\* neither AppId yet.
InitUuid ==
    /\ family \in Families
    /\ package = PackageManifest(AppA, <<>>)
    /\ config = InstallConfig("User", PrefixUser, TRUE)
    /\ files = BaseFiles(family)
    /\ dirs = BaseDirs(family)
    /\ registry = [ path |-> [s \in Scopes |-> << <<"C:", "Windows">> >>],
                    app_paths |-> {}, uninstall |-> {} ]
    /\ op = "none"
    /\ pc = "first"
    /\ caller = "none"
    /\ result = "none"
    /\ plan = NoPlan
    /\ idx = 0
    /\ current = 0
    /\ app_id = None
    /\ manifest = NoManifest
    /\ manual_manifest = None
    /\ opsLeft = MaxOps
    /\ envLeft = MaxEnvOps
    /\ faultsLeft = MaxFaults
    /\ \E s1 \in IdSpellings, s2 \in IdSpellings : log = <<s1, s2>>
    /\ before = [files |-> files, dirs |-> dirs, registry |-> registry]
    /\ prev = [op |-> "none", result |-> "none", touched |-> FALSE,
               before |-> [files |-> files, dirs |-> dirs, registry |-> registry]]
    /\ touched = FALSE

\* PackageManifest::new(&AppId::new(log[1])?)
AppIdNewForPackage ==
    /\ pc = "first"
    /\ result' = validate_namespaced_id(log[1])
    /\ IF result' = "Ok"
       THEN /\ package' = PackageManifest(AppIdNew(log[1]), <<>>)
            /\ pc' = "second"
       ELSE /\ pc' = "failed"
            /\ UNCHANGED package
    /\ UNCHANGED << family, config, files, dirs, registry, op, caller,
                    plan, idx, current, app_id, manifest, manual_manifest,
                    opsLeft, envLeft, faultsLeft, log, before, prev, touched >>

\* AppId::new(log[2])?, the id handed to uninstall().
AppIdNewForUninstall ==
    /\ pc = "second"
    /\ result' = validate_namespaced_id(log[2])
    /\ IF result' = "Ok"
       THEN /\ app_id' = Some(AppIdNew(log[2]))
            /\ pc' = "made"
       ELSE /\ pc' = "failed"
            /\ UNCHANGED app_id
    /\ UNCHANGED << family, package, config, files, dirs, registry, op, caller,
                    plan, idx, current, manifest, manual_manifest,
                    opsLeft, envLeft, faultsLeft, log, before, prev, touched >>

NextUuid ==
    \/ AppIdNewForPackage
    \/ AppIdNewForUninstall

\* The host program making the same application's id twice.
SpecUuid == InitUuid /\ [][NextUuid]_vars

\* Two characters that are equal, the two cases of one ASCII letter, or a
\* hyphen and an underscore.
SameCharFolded(c, d) ==
    \/ c = d
    \/ {c, d} = {"-", "_"}
    \/ \E k \in 1..Len(UpperChars) : {c, d} = {UpperChars[k], LowerChars[k]}

\* Two ids that differ only in letter case or in hyphen versus underscore.
SameIdFolded(s, t) ==
    Len(s) = Len(t) /\ \A i \in 1..Len(s) : SameCharFolded(s[i], t[i])

\* The normalized form: lowercase, underscores for hyphens.
Normalized(s, n) ==
    /\ SameIdFolded(s, n)
    /\ \A i \in 1..Len(n) : n[i] # "-" /\ \A k \in 1..Len(UpperChars) : n[i] # UpperChars[k]

\* C22: the UUID of AppId::new(s) is the v5 hash, under the one fixed
\* namespace, of the normalized id: two valid ids that differ only in letter
\* case or hyphen versus underscore get equal UUIDs, and ids with different
\* normalized forms hash different names.
C22_UuidOfNormalizedId ==
    pc = "made" =>
        LET u1 == package.app_id.uuid
            u2 == Unwrap(app_id).uuid
        IN  /\ u1[1] = "v5" /\ u1[2] = NAMESPACE /\ Normalized(log[1], u1[3])
            /\ u2[1] = "v5" /\ u2[2] = NAMESPACE /\ Normalized(log[2], u2[3])
            /\ SameIdFolded(log[1], log[2]) => u1 = u2
            /\ ~SameIdFolded(log[1], log[2]) => u1[3] # u2[3]

\* Two ids that differ in case and in hyphen versus underscore have been made.
C22_Witness ==
    /\ pc = "made"
    /\ log[1] = <<"a", "-", ".", "A", "b">>
    /\ log[2] = <<"A", "_", ".", "a", "B">>
    /\ package.app_id.uuid = Unwrap(app_id).uuid

\* ------------------------------------------------------- resolving paths

\* The values an environment variable may have when it is set.
EnvValues ==
    [ HOME         |-> {HOME, <<"root">>},
      LOCALAPPDATA |-> {LOCALAPPDATA, <<"D:", "Local">>},
      PROGRAMFILES |-> {PROGRAMFILES, <<"D:", "Apps">>} ]

\* The environments: every variable is unset or has one of its values.
Envs ==
    UNION { { e \in [S -> UNION { EnvValues[k] : k \in S }] :
                \A k \in S : e[k] \in EnvValues[k] } :
            S \in SUBSET (DOMAIN EnvValues) }

\* The prefixes handed to the resolver.
Prefixes ==
    { PrefixUser, PrefixSystem, SingleDir(<<"opt", "my_app">>), CustomUnix(<<"usr2">>) }

\* The host program is about to make a PathResolver for package.app_id and
\* config.destination in the environment log[1].
InitResolver ==
    /\ family \in Families
    /\ \E id \in AppIds : package = PackageManifest(id, <<>>)
    /\ \E prefix \in Prefixes : config = InstallConfig("User", prefix, TRUE)
    /\ files = BaseFiles(family)
    /\ dirs = BaseDirs(family)
    /\ registry = [ path |-> [s \in Scopes |-> << <<"C:", "Windows">> >>],
                    app_paths |-> {}, uninstall |-> {} ]
    /\ op = "none"
    /\ pc = "resolving"
    /\ caller = "none"
    /\ result = "none"
    /\ plan = NoPlan
    /\ idx = 0
    /\ current = 0
    /\ app_id = None
    /\ manifest = NoManifest
    /\ manual_manifest = None
    /\ opsLeft = MaxOps
    /\ envLeft = MaxEnvOps
    /\ faultsLeft = MaxFaults
    /\ \E env \in Envs : log = <<env>>
    /\ before = [files |-> files, dirs |-> dirs, registry |-> registry]
    /\ prev = [op |-> "none", result |-> "none", touched |-> FALSE,
               before |-> [files |-> files, dirs |-> dirs, registry |-> registry]]
    /\ touched = FALSE

\* PathResolver::new_impl, then bin_dir() and data_dir() of the resolver made;
\* plan keeps the two directories.
PathResolverNew ==
    /\ pc = "resolving"
    /\ pc' = "resolved"
    /\ LET resolved == resolve_prefix_in(log[1], family, package.app_id.plain_id,
                                         config.destination)
       IN  IF IsSome(resolved)
           THEN /\ result' = "Ok"
                /\ plan' = [ bin_dir  |-> bin_dir(Unwrap(resolved)),
                             data_dir |-> data_dir(package.app_id.plain_id,
                                                   Unwrap(resolved)) ]
           ELSE /\ result' = "InvalidEnvironmentVariable"
                /\ UNCHANGED plan
    /\ UNCHANGED << family, package, config, files, dirs, registry, op, caller,
                    idx, current, app_id, manifest, manual_manifest,
                    opsLeft, envLeft, faultsLeft, log, before, prev, touched >>

NextResolver == PathResolverNew

\* The host program resolving the directories of an installation.
SpecResolver == InitResolver /\ [][NextResolver]_vars

\* The variable a prefix needs on a family, "" when it needs none.
RequiredVariable(fam, prefix) ==
    CASE prefix.kind = "User" /\ fam = "unix"      -> "HOME"
      [] prefix.kind = "User" /\ fam = "windows"   -> "LOCALAPPDATA"
      [] prefix.kind = "System" /\ fam = "windows" -> "PROGRAMFILES"
      [] OTHER -> ""

\* The table of directories: <<bin_dir, data_dir>>.
DirectoryTable(env, fam, id, prefix) ==
    CASE prefix.kind = "SingleDir" ->
            << prefix.path \o <<"bin">>, prefix.path >>
      [] prefix.kind = "CustomUnix" ->
            << prefix.path \o <<"bin">>, prefix.path \o <<"share", id>> >>
      [] prefix.kind = "User" /\ fam = "unix" ->
            << env.HOME \o <<".local", "bin">>, env.HOME \o <<".local", "share", id>> >>
      [] prefix.kind = "System" /\ fam = "unix" ->
            << <<"usr", "local", "bin">>, <<"usr", "local", "share", id>> >>
      [] prefix.kind = "User" /\ fam = "windows" ->
            << env.LOCALAPPDATA \o <<"Programs", id, "bin">>,
               env.LOCALAPPDATA \o <<"Programs", id>> >>
      [] prefix.kind = "System" /\ fam = "windows" ->
            << env.PROGRAMFILES \o <<id, "bin">>, env.PROGRAMFILES \o <<id>> >>

DiskManifests(fam, pkg, cfg) ==
    LET m == populate_disk_manifest(pkg.app_id,
                planner_run(fam, pkg, cfg, BaseFiles(fam), BaseDirs(fam)).plan)
    IN  { [m EXCEPT !.manifest_path = mp, !.shell_profile_path = sp] :
            mp \in {<<>>, manifest_path(fam, pkg.app_id, cfg.access_scope)},
            sp \in IF fam = "unix" THEN {None, Some(Join(HOME, <<".profile">>))}
                   ELSE {None} }

\* Where the host program saves a manifest: a new file, or the path of a file
\* there already.
SavePaths == { Join(current_exe_dir, <<"m.ron">>), current_exe }

\* The host program holds a disk manifest, in manifest.
InitManifest ==
    /\ family \in Families
    /\ package \in Packages
    /\ config \in Configs(family)
    /\ files = BaseFiles(family)
    /\ dirs = BaseDirs(family)
    /\ registry = [ path |-> [s \in Scopes |-> << <<"C:", "Windows">> >>],
                    app_paths |-> {}, uninstall |-> {} ]
    /\ op = "none"
    /\ pc = "held"
    /\ caller = "none"
    /\ result = "none"
    /\ plan = NoPlan
    /\ idx = 0
    /\ current = 0
    /\ app_id = package.app_id
    /\ manifest \in DiskManifests(family, package, config)
    /\ manual_manifest = None
    /\ opsLeft = MaxOps
    /\ envLeft = MaxEnvOps
    /\ faultsLeft = MaxFaults
    /\ log = <<>>
    /\ before = [files |-> files, dirs |-> dirs, registry |-> registry]
    /\ prev = [op |-> "none", result |-> "none", touched |-> FALSE,
               before |-> [files |-> files, dirs |-> dirs, registry |-> registry]]
    /\ touched = FALSE

\* DiskManifest::save(path): create_new refuses a path that exists.
ManifestSave ==
    /\ pc = "held"
    /\ \E path \in SavePaths :
        /\ log' = <<path>>
        /\ IF exists(files, dirs, path) \/ Parent(path) \notin dirs
           THEN /\ result' = "Io"
                /\ pc' = "failed"
                /\ UNCHANGED files
           ELSE /\ result' = "Ok"
                /\ pc' = "saved"
                /\ files' = write_file(files, path, to_writer(manifest))
    /\ UNCHANGED << family, package, config, dirs, registry, op, caller,
                    plan, idx, current, app_id, manifest, manual_manifest,
                    opsLeft, envLeft, faultsLeft, before, prev, touched >>

\* DiskManifest::load(path) of the file saved; manual_manifest keeps it.
ManifestLoad ==
    /\ pc = "saved"
    /\ LET r == load(files, log[1])
       IN  /\ result' = r.kind
           /\ IF r.kind = "Ok"
              THEN pc' = "loaded" /\ manual_manifest' = Some(r.manifest)
              ELSE pc' = "failed" /\ UNCHANGED manual_manifest
    /\ UNCHANGED << family, package, config, files, dirs, registry, op, caller,
                    plan, idx, current, app_id, manifest,
                    opsLeft, envLeft, faultsLeft, log, before, prev, touched >>

\* to_writer into a buffer, then from_reader of the buffer.
ManifestToWriterFromReader ==
    /\ pc = "held"
    /\ pc' = "read"
    /\ result' = "Ok"
    /\ manual_manifest' = Some(from_reader(to_writer(manifest)))
    /\ UNCHANGED << family, package, config, files, dirs, registry, op, caller,
                    plan, idx, current, app_id, manifest,
                    opsLeft, envLeft, faultsLeft, log, before, prev, touched >>

NextManifest ==
    \/ ManifestSave
    \/ ManifestLoad
    \/ ManifestToWriterFromReader

\* The host program writing a disk manifest out and reading it back.
SpecManifest == InitManifest /\ [][NextManifest]_vars

\* Two manifests with the same fields, equal in every one that is serialized.
SameSerializedFields(m, n) ==
    /\ DOMAIN m = DOMAIN n
    /\ \A f \in DOMAIN m \ {"manifest_path"} : m[f] = n[f]

MaxCalls == 3

\* The directories handed over as exe_dir: under home, elsewhere, and two
\* that are not safe inside a shell script.
ExeDirs ==
    { Join(HOME, <<".local", "bin">>), <<"tmp", "X", "bin">>, <<"tmp", "a\"b", "bin">>,
      Join(HOME, <<"a\nb">>) }

\* What the profile may hold before the first call, for exe_dir written out
\* as p: its comment line, a line of the user's naming p, the snippet of p,
\* the snippet of another directory, the snippet of p twice, the opening of
\* a snippet and no more.
ProfileTexts(p) ==
    { <<Lit("# ~/.profile\n")>>,
      <<Lit("export PATH="), PathStr(p), Lit("\n")>>,
      <<Lit("# ~/.profile\n")>> \o Snippet(p) \o <<Lit("alias l=ls\n")>>,
      Snippet(<<"opt", "bin">>),
      Snippet(p) \o Snippet(p),
      <<Lit("# ~/.profile"), Snippet(p)[1]>> }

\* A Unix machine whose profile, plan.shell_profile_path, is not there or
\* holds one of the texts; plan.search_path is the directory to add.
InitProfile ==
    /\ family = "unix"
    /\ package = PkgBasic
    /\ \E scope \in Scopes : config = InstallConfig(scope, PrefixUser, TRUE)
    /\ \E exe_dir \in ExeDirs, profile \in {Join(HOME, <<".profile">>),
                                            Join(HOME, <<".bash_profile">>)} :
        /\ plan = [ manifest_path |-> <<>>, access_scope |-> config.access_scope,
                    search_path |-> Some(exe_dir), shell_profile_path |-> Some(profile) ]
        /\ \/ files = [q \in DOMAIN BaseFiles("unix") \ {profile} |-> BaseFiles("unix")[q]]
           \/ \E text \in ProfileTexts(path_to_shell_script_path(exe_dir, HOME)) :
                files = write_file(BaseFiles("unix"), profile, Text(text))
    /\ dirs = BaseDirs(family)
    /\ registry = [ path |-> [s \in Scopes |-> << <<"C:", "Windows">> >>],
                    app_paths |-> {}, uninstall |-> {} ]
    /\ op = "none"
    /\ pc = "profile"
    /\ caller = "none"
    /\ result = "none"
    /\ idx = 0
    /\ current = 0
    /\ app_id = package.app_id
    /\ manifest = NoManifest
    /\ manual_manifest = None
    /\ opsLeft = MaxOps
    /\ envLeft = MaxEnvOps
    /\ faultsLeft = MaxFaults
    /\ log = <<>>
    /\ before = [files |-> files, dirs |-> dirs, registry |-> registry]
    /\ prev = [op |-> "none", result |-> "none", touched |-> FALSE,
               before |-> [files |-> files, dirs |-> dirs, registry |-> registry]]
    /\ touched = FALSE

\* What a call leaves in the profile: its text, None when there is no file.
ProfileAfter(fs) ==
    IF is_file(fs, Unwrap(plan.shell_profile_path))
    THEN Some(fs[Unwrap(plan.shell_profile_path)].text) ELSE None

\* os::unix::add_path_env_var(access_scope, exe_dir, profile)
ProfileAdd ==
    /\ pc = "profile"
    /\ idx < MaxCalls
    /\ LET r == unix_add_path_env_var(files, dirs, plan.access_scope,
                    Unwrap(plan.search_path), Unwrap(plan.shell_profile_path))
       IN  /\ files' = r.files
           /\ result' = r.kind
           /\ log' = Append(log, <<"add", r.kind, ProfileAfter(r.files)>>)
    /\ idx' = idx + 1
    /\ UNCHANGED << family, package, config, dirs, registry, op, pc, caller,
                    plan, current, app_id, manifest, manual_manifest,
                    opsLeft, envLeft, faultsLeft, before, prev, touched >>

\* os::unix::remove_path_env_var(access_scope, exe_dir, profile)
ProfileRemove ==
    /\ pc = "profile"
    /\ idx < MaxCalls
    /\ LET r == unix_remove_path_env_var(files, dirs, plan.access_scope,
                    Unwrap(plan.search_path), Unwrap(plan.shell_profile_path))
       IN  /\ files' = r.files
           /\ result' = r.kind
           /\ log' = Append(log, <<"remove", r.kind, ProfileAfter(r.files)>>)
    /\ idx' = idx + 1
    /\ UNCHANGED << family, package, config, dirs, registry, op, pc, caller,
                    plan, current, app_id, manifest, manual_manifest,
                    opsLeft, envLeft, faultsLeft, before, prev, touched >>

NextProfile ==
    \/ ProfileAdd
    \/ ProfileRemove

\* The host program changing the search path of a Unix user.
SpecProfile == InitProfile /\ [][NextProfile]_vars

\* C25: the Unix snippet insert is idempotent: a second add_path_env_var,
\* made right after a first with the same directory and profile, leaves the
\* profile as the first call left it.
C25_SnippetInsertIdempotent ==
    \A i \in 1..(Len(log) - 1) :
        (log[i][1] = "add" /\ log[i + 1][1] = "add") => log[i + 1][3] = log[i][3]

\* The snippet has been written by one call and left alone by the next.
C25_Witness ==
    /\ Len(log) = 2
    /\ Unwrap(plan.shell_profile_path) \in DOMAIN before.files
    /\ log[1] = <<"add", "Ok", Some(before.files[Unwrap(plan.shell_profile_path)].text
                                    \o Snippet(<<"$HOME", ".local", "bin">>))>>
    /\ log[2] = <<"add", "Ok", log[1][3]>>

\* --------------------------------------------- the Path value on Windows

\* The Path value and a directory as the bytes of their strings.
MaxPathLen == 4
MaxDirLen  == 2

PathBytes == {"a", "A", "b", ";"}

\* Every string of at most n bytes.
RECURSIVE ByteStrings(_)
ByteStrings(n) ==
    IF n = 0 THEN { <<>> }
    ELSE ByteStrings(n - 1)
         \cup { Append(s, c) : s \in { t \in ByteStrings(n - 1) : Len(t) = n - 1 },
                               c \in PathBytes }

\* slice::split(|&value| value == b';')
RECURSIVE split_bytes(_)
split_bytes(value) ==
    IF \E i \in 1..Len(value) : value[i] = ";"
    THEN LET i == CHOOSE i \in 1..Len(value) : value[i] = ";"
                    /\ \A j \in 1..(i - 1) : value[j] # ";"
         IN  <<SubSeq(value, 1, i - 1)>> \o split_bytes(SubSeq(value, i + 1, Len(value)))
    ELSE <<value>>

\* [u8]::eq_ignore_ascii_case
bytes_eq_ignore_ascii_case(a, b) ==
    /\ Len(a) = Len(b)
    /\ \A i \in 1..Len(a) : to_ascii_lowercase_char(a[i]) = to_ascii_lowercase_char(b[i])

\* values.join(&b';')
RECURSIVE join_bytes(_)
join_bytes(parts) ==
    IF parts = <<>> THEN <<>>
    ELSE IF Len(parts) = 1 THEN parts[1]
    ELSE parts[1] \o <<";">> \o join_bytes(Tail(parts))

\* remove_part_in_path_env_var_str, byte by byte
remove_part_in_path_env_var_bytes(path_env_var, path_dir) ==
    join_bytes(SelectSeq(split_bytes(path_env_var),
        LAMBDA part : part # <<>> /\ ~bytes_eq_ignore_ascii_case(part, path_dir)))

\* add_path_env_var on the Path value: remove_path_env_var, then push ";" and
\* exe_dir
add_path_env_var_bytes(value, exe_dir) ==
    remove_part_in_path_env_var_bytes(value, exe_dir) \o <<";">> \o exe_dir

\* A Windows machine with some Path value for the scope of the plan, and the
\* directory to add in plan.search_path.
InitWinPath ==
    /\ family = "windows"
    /\ package = PkgBasic
    /\ \E scope \in Scopes : config = InstallConfig(scope, PrefixUser, TRUE)
    /\ \E exe_dir \in ByteStrings(MaxDirLen) \ { <<>> } :
        plan = [ manifest_path |-> <<>>, access_scope |-> config.access_scope,
                 search_path |-> Some(exe_dir) ]
    /\ files = BaseFiles(family)
    /\ dirs = BaseDirs(family)
    /\ \E value \in ByteStrings(MaxPathLen) :
        registry = [ path |-> [s \in Scopes |-> IF s = config.access_scope
                                                THEN value ELSE <<>>],
                     app_paths |-> {}, uninstall |-> {} ]
    /\ op = "none"
    /\ pc = "winpath"
    /\ caller = "none"
    /\ result = "none"
    /\ idx = 0
    /\ current = 0
    /\ app_id = package.app_id
    /\ manifest = NoManifest
    /\ manual_manifest = None
    /\ opsLeft = MaxOps
    /\ envLeft = MaxEnvOps
    /\ faultsLeft = MaxFaults
    /\ log = <<>>
    /\ before = [files |-> files, dirs |-> dirs, registry |-> registry]
    /\ prev = [op |-> "none", result |-> "none", touched |-> FALSE,
               before |-> [files |-> files, dirs |-> dirs, registry |-> registry]]
    /\ touched = FALSE

\* os::windows::add_path_env_var(access_scope, exe_dir)
WinPathAdd ==
    /\ pc = "winpath"
    /\ idx < MaxCalls
    /\ registry' = [registry EXCEPT !.path[plan.access_scope] =
                        add_path_env_var_bytes(@, Unwrap(plan.search_path))]
    /\ result' = "Ok"
    /\ log' = Append(log, <<"add", registry.path[plan.access_scope],
                            registry'.path[plan.access_scope]>>)
    /\ idx' = idx + 1
    /\ UNCHANGED << family, package, config, files, dirs, op, pc, caller,
                    plan, current, app_id, manifest, manual_manifest,
                    opsLeft, envLeft, faultsLeft, before, prev, touched >>

\* os::windows::remove_path_env_var(access_scope, exe_dir)
WinPathRemove ==
    /\ pc = "winpath"
    /\ idx < MaxCalls
    /\ registry' = [registry EXCEPT !.path[plan.access_scope] =
                        remove_part_in_path_env_var_bytes(@, Unwrap(plan.search_path))]
    /\ result' = "Ok"
    /\ log' = Append(log, <<"remove", registry.path[plan.access_scope],
                            registry'.path[plan.access_scope]>>)
    /\ idx' = idx + 1
    /\ UNCHANGED << family, package, config, files, dirs, op, pc, caller,
                    plan, current, app_id, manifest, manual_manifest,
                    opsLeft, envLeft, faultsLeft, before, prev, touched >>

NextWinPath ==
    \/ WinPathAdd
    \/ WinPathRemove

\* The host program changing the Path value of a Windows scope.
SpecWinPath == InitWinPath /\ [][NextWinPath]_vars

\* The entries of a Path value: the text between its semicolons.
EntryStarts(s) == { i \in 1..(Len(s) + 1) : i = 1 \/ s[i - 1] = ";" }

EntryAt(s, i) ==
    IF \E e \in i..Len(s) : s[e] = ";"
    THEN SubSeq(s, i, (CHOOSE e \in i..Len(s) :
                            s[e] = ";" /\ \A j \in i..(e - 1) : s[j] # ";") - 1)
    ELSE SubSeq(s, i, Len(s))

\* The start of the last entry.
LastEntryStart(s) == CHOOSE i \in EntryStarts(s) : \A j \in EntryStarts(s) : j <= i

\* The entries of s that are not empty and not dir, in order.
RECURSIVE OtherEntries(_, _, _)
OtherEntries(s, dir, i) ==
    IF i > Len(s) + 1 THEN <<>>
    ELSE IF i \in EntryStarts(s)
            /\ EntryAt(s, i) # <<>> /\ ~bytes_eq_ignore_ascii_case(EntryAt(s, i), dir)
    THEN <<EntryAt(s, i)>> \o OtherEntries(s, dir, i + 1)
    ELSE OtherEntries(s, dir, i + 1)

\* C26: after add_path_env_var(scope, dir), exactly one entry of the stored
\* Path value equals dir without regard to ASCII case, it is the last entry,
\* and every prior entry that is not empty and not dir is kept, in its order.
C26_PathInsertDuplicateFree ==
    \A k \in 1..Len(log) :
        log[k][1] = "add" =>
            LET dir    == Unwrap(plan.search_path)
                prior  == log[k][2]
                stored == log[k][3]
            IN  /\ { i \in EntryStarts(stored) :
                        bytes_eq_ignore_ascii_case(EntryAt(stored, i), dir) }
                   = { LastEntryStart(stored) }
                /\ OtherEntries(stored, dir, 1) = OtherEntries(prior, dir, 1)

\* Something lies in directory d: a file or a directory somewhere below it.
Holds(fs, ds, d) ==
    \/ \E q \in DOMAIN fs : Len(q) > Len(d) /\ SubSeq(q, 1, Len(d)) = d
    \/ \E e \in ds : Len(e) > Len(d) /\ SubSeq(e, 1, Len(d)) = d

\* The steps of Uninstaller::run_impl.
UninstallerSteps ==
    { "u_verify", "u_app_path", "u_path_env", "u_files", "u_self",
      "u_manifest_file", "u_dirs", "u_uninstall_entry" }

\* C27: the uninstaller removes a directory only if the disk manifest records
\* it with preserve = false and nothing lies in it at that moment; the planner
\* sets preserve = true exactly when the directory exists at planning time; so
\* an uninstall that follows a successful install and works from the manifest
\* that install wrote leaves every recorded directory that was there before
\* that install.
C27_PreservedAndNonEmptyDirsKept ==
    /\ [][ (pc \in UninstallerSteps) =>
            (\A d \in dirs \ dirs' :
                /\ \E i \in 1..Len(manifest.dirs) :
                        manifest.dirs[i].path = d /\ ~manifest.dirs[i].preserve
                /\ ~Holds(files, dirs, d)) ]_vars
    /\ [] ((op = "install" /\ plan # NoPlan) =>
            \A i \in 1..Len(plan.dirs) :
                plan.dirs[i].preserve
                    <=> exists(before.files, before.dirs, plan.dirs[i].destination_path))
    /\ [] ((/\ op = "uninstall" /\ prev.op = "install" /\ prev.result = "Ok"
             /\ manifest.manifest_path = ConfigManifestPath) =>
            \A d \in {ExpectedBinDir, ExpectedDataDir} :
                d \in prev.before.dirs => d \in dirs)

\* An uninstall after a successful install has removed a directory the
\* install made and has left one that was there before the install.
C27_Witness ==
    /\ Returned("uninstall")
    /\ result = "Ok"
    /\ manifest.manifest_path = ConfigManifestPath
    /\ prev.op = "install" /\ prev.result = "Ok"
    /\ Logged("remove_dir")
    /\ \E i \in 1..Len(manifest.dirs) :
        /\ manifest.dirs[i].preserve
        /\ manifest.dirs[i].path \in prev.before.dirs
        /\ manifest.dirs[i].path \in dirs

\* C28: every directory the install makes to place a recorded file is
\* recorded: after a successful install, each directory on the way to a file
\* of the persisted disk manifest that was not there before the install has a
\* DiskDirEntry in the manifest.
C28_CreatedDirsRecorded ==
    (Returned("install") /\ result = "Ok") =>
        LET r == load(files, ConfigManifestPath) IN
        /\ r.kind = "Ok"
        /\ \A i \in 1..Len(r.manifest.files) :
            \A d \in Ancestors(Parent(r.manifest.files[i].path)) :
                (d \in dirs /\ d \notin before.dirs) =>
                    \E k \in 1..Len(r.manifest.dirs) : r.manifest.dirs[k].path = d

\* A path with every ".." taken together with the component before it.
RECURSIVE Resolved(_)
Resolved(path) ==
    IF path = <<>> THEN <<>>
    ELSE LET front == Resolved(SubSeq(path, 1, Len(path) - 1))
             last  == path[Len(path)]
         IN  IF last = ".." THEN SubSeq(front, 1, Len(front) - 1)
             ELSE IF last = "." THEN front
             ELSE Append(front, last)

\* C29: every file destination of an install plan, and so of the disk
\* manifest made from it, is the directory of the entry's type (bin_dir for
\* Executable, data_dir for Data) joined with the entry's target path, and
\* lies in that directory: no destination escapes it.
C29_DestinationsUnderTypeDir ==
    (pc = "planned" /\ result = "Ok") =>
        /\ Len(plan.files) = Len(package.files)
        /\ \A i \in 1..Len(package.files) :
            LET dir  == IF package.files[i].file_type = "Executable"
                        THEN ExpectedBinDir ELSE ExpectedDataDir
                dest == plan.files[i].destination_path
            IN  /\ dest = dir \o component_names(package.files[i].target_path)
                /\ IsPrefix(dir, Resolved(dest))
                /\ populate_disk_manifest(package.app_id, plan).files[i].path = dest

\* A plan has been made with an executable and a data file under a
\* subdirectory.
C29_Witness ==
    /\ pc = "planned"
    /\ result = "Ok"
    /\ Len(plan.files) = 2
    /\ plan.files[1].file_type = "Executable"
    /\ plan.files[2].file_type = "Data"
    /\ plan.files[2].destination_path = ExpectedDataDir \o <<"a", "b">>

\* ------------------------------------------------- the executor on its own

\* The machines an executor may be started on: without the application, with
\* the application installed as the plan would install it, and with nothing
\* but a manifest file at the manifest path.
Machines(fam, pkg, cfg) ==
    LET clean == [ files |-> BaseFiles(fam), dirs |-> BaseDirs(fam),
                   registry |-> [ path |-> [s \in Scopes |-> << <<"C:", "Windows">> >>],
                                  app_paths |-> {}, uninstall |-> {} ] ]
        done  == installed(fam, pkg, cfg, clean)
        mpath == manifest_path(fam, pkg.app_id, cfg.access_scope)
    IN  { clean, done,
          [ clean EXCEPT !.files = write_file(@, mpath, done.files[mpath]),
                         !.dirs  = create_dir_all(@, Parent(mpath)) ] }

\* Executor::new(app_id, plan) for a plan the planner made on the machine
\* without the application; run() is about to begin.
InitExecutor ==
    /\ family \in Families
    /\ package \in Packages
    /\ config \in Configs(family)
    /\ \E m \in Machines(family, package, config) :
        /\ files = m.files
        /\ dirs = m.dirs
        /\ registry = m.registry
    /\ op = "install"
    /\ pc = "x_check"
    /\ caller = "none"
    /\ result = "none"
    /\ plan = planner_run(family, package, config, BaseFiles(family), BaseDirs(family)).plan
    /\ idx = 0
    /\ current = 0
    /\ app_id = package.app_id
    /\ manifest = NoManifest
    /\ manual_manifest = None
    /\ opsLeft = MaxOps
    /\ envLeft = MaxEnvOps
    /\ faultsLeft = MaxFaults
    /\ log = <<>>
    /\ before = [files |-> files, dirs |-> dirs, registry |-> registry]
    /\ prev = [op |-> "none", result |-> "none", touched |-> FALSE,
               before |-> [files |-> files, dirs |-> dirs, registry |-> registry]]
    /\ touched = FALSE

NextExecutor ==
    \/ ExecCheckExistingManifest
    \/ ExecPersistDiskManifest
    \/ ExecCopyFiles
    \/ ExecAddPathEnvVar
    \/ ExecAddAppPath
    \/ ExecAddUninstallEntry
    \/ IoError

\* Executor::run on a plan, on any of the machines.
SpecExecutor == InitExecutor /\ [][NextExecutor]_vars

\* C30: an executor that finds the plan's manifest path existing returns
\* AlreadyInstalled in that step, with no file, directory or registry value
\* changed; an install that returned AlreadyInstalled has persisted nothing,
\* copied nothing and registered nothing; and no executor step hands over to
\* the uninstaller.
C30_AlreadyInstalledBeforeMutation ==
    /\ [][ (pc = "x_check" /\ exists(files, dirs, plan.manifest_path)) =>
            /\ pc' = "idle"
            /\ result' = "AlreadyInstalled"
            /\ files' = files /\ dirs' = dirs /\ registry' = registry ]_vars
    /\ [] ((pc = "idle" /\ op = "install" /\ result = "AlreadyInstalled") =>
            ~ \E i \in 1..Len(log) :
                log[i][1] \in {"persist", "copy", "add_path", "add_app_path",
                               "add_uninstall_entry"})
    /\ [][ (pc \in ExecutorSteps) => (pc' \in ExecutorSteps \cup {"idle"}) ]_vars

\* An install has returned AlreadyInstalled with the manifest that was there
\* still there, unchanged.
C30_Witness ==
    /\ Returned("install")
    /\ result = "AlreadyInstalled"
    /\ plan # NoPlan
    /\ plan.manifest_path \in DOMAIN files
    /\ plan.manifest_path \in DOMAIN before.files
    /\ files[plan.manifest_path] = before.files[plan.manifest_path]

\* ------------------------------------------------- reserved file types

\* C31: planning a package that holds an entry of type Library,
\* Configuration or Documentation returns an error value: the planner does
\* not abort the process, makes no plan and changes nothing on the machine.
C31_ReservedTypesFailExplicitly ==
    (/\ pc = "planned"
     /\ \E i \in 1..Len(package.files) : package.files[i].file_type \in ReservedFileTypes)
    => /\ result \notin {"Ok", "Panic"}
       /\ plan = NoPlan
       /\ files = before.files /\ dirs = before.dirs /\ registry = before.registry

\* ------------------------------------------------- choosing the shell profile

\* The values of $SHELL: zsh, bash and another shell by their paths, a bare
\* name, the empty string and a path that has no file name.
ShellValues ==
    { <<"bin", "zsh">>, <<"usr", "bin", "bash">>, <<"bin", "fish">>, <<"zsh">>,
      <<>>, <<"bin", "zsh", "..">> }

\* The environments of the call: HOME set or not, SHELL one of its values or
\* not set.
ShellEnvs ==
    { (IF h THEN [HOME |-> HOME] ELSE <<>>) @@ sh :
        h \in BOOLEAN, sh \in {<<>>} \cup { [SHELL |-> v] : v \in ShellValues } }

\* The three profiles under home.
ProfileNames == {".zprofile", ".bash_profile", ".profile"}

\* A Unix machine on which each of the three profiles is a file, a
\* directory or not there; log[1] is the environment of the call.
InitShell ==
    /\ family = "unix"
    /\ package = PkgBasic
    /\ config = InstallConfig("User", PrefixUser, TRUE)
    /\ \E as_file \in SUBSET ProfileNames, as_dir \in SUBSET ProfileNames :
        /\ as_file \cap as_dir = {}
        /\ files = [q \in (DOMAIN BaseFiles("unix") \ {Join(HOME, <<n>>) : n \in ProfileNames})
                          \cup {Join(HOME, <<n>>) : n \in as_file} |->
                        IF q \in DOMAIN BaseFiles("unix") /\ q[Len(q)] \notin ProfileNames
                        THEN BaseFiles("unix")[q]
                        ELSE Text(<<Lit("# profile\n")>>)]
        /\ dirs = BaseDirs("unix") \cup {Join(HOME, <<n>>) : n \in as_dir}
    /\ registry = [ path |-> [s \in Scopes |-> << <<"C:", "Windows">> >>],
                    app_paths |-> {}, uninstall |-> {} ]
    /\ op = "none"
    /\ pc = "selecting"
    /\ caller = "none"
    /\ result = "none"
    /\ plan = NoPlan
    /\ idx = 0
    /\ current = 0
    /\ app_id = package.app_id
    /\ manifest = NoManifest
    /\ manual_manifest = None
    /\ opsLeft = MaxOps
    /\ envLeft = MaxEnvOps
    /\ faultsLeft = MaxFaults
    /\ \E env \in ShellEnvs : log = <<env>>
    /\ before = [files |-> files, dirs |-> dirs, registry |-> registry]
    /\ prev = [op |-> "none", result |-> "none", touched |-> FALSE,
               before |-> [files |-> files, dirs |-> dirs, registry |-> registry]]
    /\ touched = FALSE

\* get_current_shell_profile(): log[2] keeps what it returned.
ShellProfileSelect ==
    /\ pc = "selecting"
    /\ pc' = "selected"
    /\ LET r == get_current_shell_profile_in(log[1], files, dirs)
       IN  /\ result' = IF IsSome(r) THEN "Ok" ELSE "Io"
           /\ log' = Append(log, r)
    /\ UNCHANGED << family, package, config, files, dirs, registry, op, caller,
                    plan, idx, current, app_id, manifest, manual_manifest,
                    opsLeft, envLeft, faultsLeft, before, prev, touched >>

NextShell == ShellProfileSelect

\* The planner asking for the profile of the current shell.
SpecShell == InitShell /\ [][NextShell]_vars

\* The basename of $SHELL: "" when the variable is unset or names no file.
ShellBasename(env) ==
    IF "SHELL" \in DOMAIN env /\ env["SHELL"] # <<>>
       /\ env["SHELL"][Len(env["SHELL"])] # ".."
    THEN env["SHELL"][Len(env["SHELL"])] ELSE ""

\* Whether the profile of that name is there, as a file or as a directory.
There(name) == Join(HOME, <<name>>) \in DOMAIN files \cup dirs

\* The profile the selection rule names.
SelectedName(shell) ==
    IF shell = "zsh" /\ There(".zprofile") THEN ".zprofile"
    ELSE IF shell = "bash" /\ There(".bash_profile") THEN ".bash_profile"
    ELSE IF There(".profile") THEN ".profile"
    ELSE IF shell = "zsh" THEN ".zprofile"
    ELSE IF shell = "bash" THEN ".bash_profile"
    ELSE ".profile"

\* C32: with HOME set, the shell profile selected is .zprofile when the
\* shell is zsh and .zprofile exists, .bash_profile when the shell is bash
\* and .bash_profile exists, else .profile when it exists, else the shell's
\* own file for zsh and bash, else .profile; it is always one of the three
\* paths under $HOME.
C32_ShellProfileSelection ==
    (pc = "selected" /\ "HOME" \in DOMAIN log[1])
    => /\ result = "Ok"
       /\ log[2] = Some(Join(HOME, <<SelectedName(ShellBasename(log[1]))>>))
       /\ Unwrap(log[2]) \in { Join(HOME, <<n>>) : n \in ProfileNames }

\* The shell is zsh, .zprofile is missing and .profile is there: .profile.
C32_Witness ==
    /\ pc = "selected"
    /\ "HOME" \in DOMAIN log[1]
    /\ ShellBasename(log[1]) = "zsh"
    /\ ~There(".zprofile")
    /\ There(".profile")
    /\ There(".bash_profile")
    /\ log[2] = Some(Join(HOME, <<".profile">>))

\* ------------------------------------------------- removing the snippet

\* The profile before the i-th call: its text, None when there was no file.
ProfileBefore(i) ==
    IF i > 1 THEN log[i - 1][3]
    ELSE IF Unwrap(plan.shell_profile_path) \in DOMAIN before.files
         THEN Some(before.files[Unwrap(plan.shell_profile_path)].text)
         ELSE None

\* The snippet of plan.search_path, as the calls write and look for it.
PlanSnippet == Snippet(path_to_shell_script_path(Unwrap(plan.search_path), HOME))

\* C33: removing the Unix snippet changes nothing when the profile does not
\* hold the exact snippet (the profile keeps its bytes, a missing profile is
\* not created); and on a profile that is there and does not hold the path
\* string, an add followed by a remove of the same directory gives the
\* profile its first bytes back.
C33_RemoveNoOpAndAddRemoveRestores ==
    /\ \A i \in 1..Len(log) :
        (/\ log[i][1] = "remove"
         /\ (IsSome(ProfileBefore(i)) => ~ContainsSeq(Unwrap(ProfileBefore(i)), PlanSnippet)))
        => log[i][3] = ProfileBefore(i)
    /\ \A i \in 1..(Len(log) - 1) :
        (/\ log[i][1] = "add" /\ log[i + 1][1] = "remove"
         /\ IsSome(ProfileBefore(i))
         /\ ~ContainsSeq(Unwrap(ProfileBefore(i)),
                         <<PathStr(path_to_shell_script_path(Unwrap(plan.search_path), HOME))>>))
        => log[i + 1][3] = ProfileBefore(i)

\* A profile that ends in the opening of a snippet has had the snippet
\* added and removed again, and a further remove has left it alone.
C33_Witness ==
    /\ Len(log) = 3
    /\ IsSome(ProfileBefore(1))
    /\ Unwrap(ProfileBefore(1)) = <<Lit("# ~/.profile"), PlanSnippet[1]>>
    /\ log[1] = <<"add", "Ok", Some(Unwrap(ProfileBefore(1)) \o PlanSnippet)>>
    /\ log[2] = <<"remove", "Ok", ProfileBefore(1)>>
    /\ log[3] = <<"remove", "Ok", ProfileBefore(1)>>

\* ------------------------------------------------- unsafe search-path entries

\* The shell-script form of plan.search_path.
PlanShellPath == path_to_shell_script_path(Unwrap(plan.search_path), HOME)

\* C34: on Unix a call to add or remove a search-path entry whose
\* shell-script form holds a control character or a double quote leaves the
\* profile as it was (not created, not appended to, not rewritten) and, for
\* the user scope that add_path_env_var_user and remove_path_env_var_user
\* serve, returns an error; so a snippet is only ever written for a path
\* without such a character.
C34_UnsafePathsRejected ==
    \A i \in 1..Len(log) :
        /\ ~verify_safe_for_shell_script(PlanShellPath)
            => /\ log[i][3] = ProfileBefore(i)
               /\ plan.access_scope = "User" => log[i][2] = "Io"
        /\ (log[i][1] = "add" /\ log[i][3] # ProfileBefore(i))
            => /\ \A k \in 1..Len(PlanShellPath) : PlanShellPath[k] \notin UnsafeComponents
               /\ log[i][3] = Some((IF IsSome(ProfileBefore(i))
                                    THEN Unwrap(ProfileBefore(i)) ELSE <<>>)
                                   \o Snippet(PlanShellPath))

\* A directory under home with a control character in its name: the add and
\* the remove both fail and there is still no profile.
C34_Witness ==
    /\ Len(log) = 2
    /\ plan.access_scope = "User"
    /\ Unwrap(plan.search_path) = Join(HOME, <<"a\nb">>)
    /\ ProfileBefore(1) = None
    /\ log[1] = <<"add", "Io", None>>
    /\ log[2] = <<"remove", "Io", None>>

\* ------------------------------------------------- the progress callback

\* The places in the log where the progress callback was invoked, and where
\* an entry was copied or skipped.
ProgressAt == { j \in 1..Len(log) : log[j][1] = "progress" }
ProcessedAt == { j \in 1..Len(log) : log[j][1] \in {"copy", "skip"} }

MaxRequests == 3

\* What a request's closure does on the UI thread: add a guided dialog (Exit
\* and Next), add an info dialog (Ok), or update a view and reply at once.
RequestKinds == {"guided", "info", "progress"}

\* The Tui while its background thread is up, kept in plan: the cursive event
\* loop (ui), the closures waiting in the CbSink (cb_sink), the dialog on the
\* screen (layer), and the reply channel of the request under way: its buffer
\* of one (reply), the number of SyncSender handles alive (senders) and the
\* number of replies sent on it (sent).
TuiState(ui, cb_sink, layer, reply, senders, sent) ==
    [ manifest_path |-> <<>>, ui |-> ui, cb_sink |-> cb_sink, layer |-> layer,
      reply |-> reply, senders |-> senders, sent |-> sent ]

\* Tui::run_background has returned: the UI thread runs, nothing is asked.
InitTui ==
    /\ family \in Families
    /\ package \in {PkgBasic, PkgTwoMain}
    /\ config = InstallConfig("User", PrefixUser, TRUE)
    /\ files = BaseFiles(family)
    /\ dirs = BaseDirs(family)
    /\ registry = [ path |-> [s \in Scopes |-> << <<"C:", "Windows">> >>],
                    app_paths |-> {}, uninstall |-> {} ]
    /\ op = "none"
    /\ pc = "t_idle"
    /\ caller = "none"
    /\ result = "none"
    /\ plan = TuiState("running", <<>>, None, <<>>, 0, 0)
    /\ idx = 0
    /\ current = 0
    /\ app_id = package.app_id
    /\ manifest = NoManifest
    /\ manual_manifest = None
    /\ opsLeft = MaxOps
    /\ envLeft = MaxEnvOps
    /\ faultsLeft = MaxFaults
    /\ log = <<>>
    /\ before = [files |-> files, dirs |-> dirs, registry |-> registry]
    /\ prev = [op |-> "none", result |-> "none", touched |-> FALSE,
               before |-> [files |-> files, dirs |-> dirs, registry |-> registry]]
    /\ touched = FALSE

\* Tui::callback up to channel.send: a reply channel is made, its sender
\* moved into the closure and the closure sent to the UI thread. The send
\* fails when the event loop has gone; the closure and its sender are dropped.
TuiCallbackSend ==
    /\ pc = "t_idle"
    /\ idx < MaxRequests
    /\ idx' = idx + 1
    /\ \E kind \in RequestKinds :
        /\ caller' = kind
        /\ IF plan.ui = "exited"
           THEN /\ plan' = [plan EXCEPT !.reply = <<>>, !.senders = 0, !.sent = 0]
                /\ result' = "Terminal"
                /\ log' = Append(log, <<kind, "Terminal", "send">>)
                /\ UNCHANGED pc
           ELSE /\ plan' = [plan EXCEPT !.cb_sink = Append(@, kind),
                                        !.reply = <<>>, !.senders = 1, !.sent = 0]
                /\ result' = "none"
                /\ pc' = "t_recv"
                /\ UNCHANGED log
    /\ UNCHANGED << family, package, config, files, dirs, registry, op, current,
                    app_id, manifest, manual_manifest, opsLeft, envLeft, faultsLeft,
                    before, prev, touched >>

\* Tui::callback, were recv to wait for a reply whatever became of the senders.
TuiCallbackRecv_blocking ==
    /\ pc = "t_recv"
    /\ plan.reply # <<>>
    /\ pc' = "t_idle"
    /\ result' = "Ok"
    /\ log' = Append(log, <<caller, "Ok", plan.reply[1], plan.sent>>)
    /\ plan' = [plan EXCEPT !.reply = <<>>]
    /\ UNCHANGED << family, package, config, files, dirs, registry, op, caller,
                    idx, current, app_id, manifest, manual_manifest, opsLeft,
                    envLeft, faultsLeft, before, prev, touched >>

\* Tui::callback from receiver.recv(): it returns the reply once there is
\* one, the Terminal error once no sender is left, and blocks until then.
TuiCallbackRecv ==
    /\ pc = "t_recv"
    /\ plan.reply # <<>> \/ plan.senders = 0
    /\ pc' = "t_idle"
    /\ IF plan.reply # <<>>
       THEN /\ result' = "Ok"
            /\ log' = Append(log, <<caller, "Ok", plan.reply[1], plan.sent>>)
       ELSE /\ result' = "Terminal"
            /\ log' = Append(log, <<caller, "Terminal", "recv">>)
    /\ plan' = [plan EXCEPT !.reply = <<>>]
    /\ UNCHANGED << family, package, config, files, dirs, registry, op, caller,
                    idx, current, app_id, manifest, manual_manifest, opsLeft,
                    envLeft, faultsLeft, before, prev, touched >>

\* The event loop runs the next closure: a progress request replies and
\* drops its sender, a dialog request puts the dialog on the screen, whose
\* buttons hold the sender (make_info_dialog) or the sender and its clone
\* (make_guided_dialog).
UiRunCallback ==
    /\ plan.ui = "running"
    /\ plan.cb_sink # <<>>
    /\ LET kind == Head(plan.cb_sink) IN
       plan' = IF kind = "progress"
               THEN [plan EXCEPT !.cb_sink = Tail(@), !.reply = Append(@, "()"),
                                 !.senders = 0, !.sent = @ + 1]
               ELSE [plan EXCEPT !.cb_sink = Tail(@), !.layer = Some(kind),
                                 !.senders = IF kind = "guided" THEN 2 ELSE 1]
    /\ UNCHANGED << family, package, config, files, dirs, registry, op, pc, caller,
                    result, idx, current, app_id, manifest, manual_manifest, opsLeft,
                    envLeft, faultsLeft, log, before, prev, touched >>

\* A button of the dialog is pressed: pop_layer, then the send of the
\* button's value; the dialog and the senders its buttons held are dropped.
UiButton ==
    /\ plan.ui = "running"
    /\ IsSome(plan.layer)
    /\ \E button \in IF Unwrap(plan.layer) = "guided" THEN {"Exit", "Next"} ELSE {"()"} :
        plan' = [plan EXCEPT !.layer = None, !.reply = Append(@, button),
                             !.senders = 0, !.sent = @ + 1]
    /\ UNCHANGED << family, package, config, files, dirs, registry, op, pc, caller,
                    result, idx, current, app_id, manifest, manual_manifest, opsLeft,
                    envLeft, faultsLeft, log, before, prev, touched >>

\* The event loop ends (the user quits it, the terminal fails, a closure
\* panics): the UI thread drops the CbSink's receiver with the closures in
\* it, the screen, and every sender they held.
UiExit ==
    /\ plan.ui = "running"
    /\ plan' = [plan EXCEPT !.ui = "exited", !.cb_sink = <<>>, !.layer = None,
                            !.senders = 0]
    /\ UNCHANGED << family, package, config, files, dirs, registry, op, pc, caller,
                    result, idx, current, app_id, manifest, manual_manifest, opsLeft,
                    envLeft, faultsLeft, log, before, prev, touched >>

NextTui ==
    \/ TuiCallbackSend
    \/ TuiCallbackRecv
    \/ UiRunCallback
    \/ UiButton
    \/ UiExit

\* The installer thread and the UI thread; a recv that can return, returns.
SpecTui == InitTui /\ [][NextTui]_vars /\ WF_vars(TuiCallbackRecv)

\* C36: a UI request is a synchronous hand-shake: the installer thread
\* leaves Tui::callback with a value only when the UI thread has sent one
\* reply for the request, and no request is ever replied to twice; when the
\* UI thread's channel is closed, at the send of the request or by the drop
\* of the reply's senders, the call ends with the Terminal error and does
\* not block forever.
C36_SynchronousHandshake ==
    /\ [](plan.sent <= 1 /\ Len(plan.reply) <= 1)
    /\ [][ (pc = "t_recv" /\ pc' # "t_recv")
            => IF plan.sent = 1
               THEN result' = "Ok" /\ log' = Append(log, <<caller, "Ok", plan.reply[1], 1>>)
               ELSE result' = "Terminal" /\ plan.senders = 0 ]_vars
    /\ [][ (pc = "t_idle" /\ plan.ui = "exited" /\ idx' # idx)
            => (pc' = "t_idle" /\ result' = "Terminal") ]_vars
    /\ ((pc = "t_recv" /\ plan.ui = "exited") ~> (pc = "t_idle"))

\* A guided dialog was answered, the UI thread ended while the installer
\* thread waited for the next reply, and a third request could not be sent.
C36_Witness ==
    /\ Len(log) = 3
    /\ log[1] = <<"guided", "Ok", "Next", 1>>
    /\ log[2] = <<"info", "Terminal", "recv">>
    /\ log[3] = <<"info", "Terminal", "send">>
    /\ pc = "t_idle"
    /\ plan.ui = "exited"

\* ------------------------------------------------- files that were there before

\* No manifest of the application is found on the machine m: not beside the
\* executable, not in the User and not in the System location.
NoManifestOn(m) ==
    /\ ~exists(m.files, m.dirs, SiblingManifestPath(package.app_id))
    /\ \A scope \in Scopes :
        ~exists(m.files, m.dirs, manifest_path(family, package.app_id, scope))

\* C37: uninstall deletes only files the install copied: a file that was
\* at a destination before the install began, on a machine without the
\* application, and that the install left in place because its checksum
\* matched, is still there after the uninstall that follows.
C37_PreexistingFilesKept ==
    (/\ Returned("uninstall")
     /\ result = "Ok"
     /\ prev.op = "install"
     /\ prev.result = "Ok"
     /\ NoManifestOn(prev.before))
    => \A p \in DestPaths(family, package, config) :
          (/\ p \in DOMAIN prev.before.files
           /\ p \in DOMAIN before.files
           /\ before.files[p] = prev.before.files[p])
          => p \in DOMAIN files

\* ------------------------------------------------- install over an installation

\* C38: an install over an installation of the same application marks
\* preserve only on directories that were there before the application was
\* first installed: after an install on a machine without the application
\* and a second install right after it, no directory that the first install
\* created is marked preserve in the new manifest.
C38_ReinstallPreservesOnlyOlderDirs ==
    (/\ Returned("install")
     /\ result = "Ok"
     /\ plan # NoPlan
     /\ prev.op = "install"
     /\ prev.result = "Ok"
     /\ ~prev.touched
     /\ NoManifestOn(prev.before))
    => \A i \in 1..Len(plan.dirs) :
          plan.dirs[i].preserve
          => exists(prev.before.files, prev.before.dirs, plan.dirs[i].destination_path)

\* ------------------------------------------------- one application, two spellings

\* C39: two AppIds with equal UUIDs have the same disk-manifest path in
\* either scope, so that the application installed under one spelling of its
\* id is found under the other.
C39_EqualUuidSameManifestPath ==
    (pc = "made" /\ package.app_id.uuid = Unwrap(app_id).uuid)
    => \A scope \in Scopes :
          manifest_path(family, package.app_id, scope)
          = manifest_path(family, Unwrap(app_id), scope)

\* ------------------------------------------------- the search path of all users

\* C40: a non-interactive install on Unix with access_scope System and
\* modify_os_search_path set returns an error before it changes anything, or
\* runs to its end and returns a result: it does not abort in the
\* search-path step once the disk manifest and the files are written.
C40_NoAbortAfterWrite ==
    (/\ op = "install"
     /\ pc = "idle"
     /\ family = "unix"
     /\ config.access_scope = "System"
     /\ config.modify_os_search_path)
    => ~ (/\ result = "Panic"
          /\ \E i \in 1..Len(log) : log[i][1] = "persist")

====
